---- MODULE Spec2Model ----
(***************************************************************************)
(* JStap: the PDG builder (AST ingestion, control flow, data flow), the    *)
(* feature extraction and vectorisation, and the worker pool, as state     *)
(* machines translated from the Python sources.                            *)
(*                                                                         *)
(* Python values are modelled as follows.                                  *)
(*   - a JSON value is a record [t, v]: t is "dict", "list", "str", "num", *)
(*     "bool" or "null"; a dict's v is the sequence of its <<key, value>>  *)
(*     pairs in insertion order, a list's v the sequence of its elements,  *)
(*     a scalar's v a string;                                              *)
(*   - a Node object is a record of the sequence `nodes`; a reference to a *)
(*     Node is its index in `nodes`, None is 0;                            *)
(*   - a VarList object is a record of the sequence `heap`; a reference to *)
(*     a VarList is its index in `heap`;                                   *)
(*   - the labels True and False of control edges are "True" and "False".  *)
(***************************************************************************)
EXTENDS Integers, Sequences, FiniteSets, TLC

VARIABLES
    \* ---- PDG generation (pdgs_generation.get_data_flow) ----
    prog,          \* the JavaScript program under analysis
    pc,            \* position of the run: see GetDataFlow, SaveJson, CountNgrams
    nodes,         \* the Node objects
    Node_id,       \* the class attribute Node.id
    handed,        \* history: the ids Node.__init__ has handed out in this process,
                   \* graph by graph; the first entry is the import of handle_json
    heap,          \* the VarList objects
    var_loc,       \* reference to the current local VarList
    var_glob,      \* reference to the global VarList
    unknown_var,   \* Identifier nodes used but not (yet) defined
    id_list,       \* ids of the nodes already handled
    stack,         \* the call stack of the running stage
    raised,        \* the exception that ended the run, or "None"
    data,          \* save_json: the JSON built back from the Node objects
    \* ---- features (features_counting, features_space) ----
    level, features_choice, n_gram,   \* the arguments level, features_choice, n
    features_list,     \* what features_value.extract_features gives for the file
    features2int_dict, \* feature -> column
    features_dict,     \* feature -> number of occurrences, or None
    total_features,    \* number of features of the file, or None
    csr,               \* the row features_vector returns, or None
    \* ---- worker pool (static_analysis.get_features) ----
    my_queue,      \* the files to analyse
    out_queue,     \* [buffer: per worker, what its feeder thread still holds;
                   \*  pipe: what the main task can read; put: all that was put]
    except_queue,  \* the files whose analysis raised
    workers,       \* per worker [pc, analysis, exitcode]
    main,          \* the main task: [pc, files2do, i, all_exited]
    analyses,      \* the list get_features returns
    dequeued,      \* history: <<worker, file>> for every my_queue.get
    \* ---- the end of get_data_flow: the PDG is pickled by a subprocess ----
    store_pdg,     \* the file at the path store_pdg
    exitcode,      \* p.exitcode of the subprocess, or "None"
    returned,      \* what get_data_flow returned, or "None" before it returns
    \* ---- feature selection (features_selection.store_features_all) ----
    call,          \* the arguments of store_features_all
    sel_pc,        \* the function of features_selection.py that runs
    logged,        \* the messages of logging.error
    analysed,      \* history: the samples analyze_features was called for
    analyzed_features_dict,  \* feature -> [ben_with_f, ben_wo_f, mal_with_f, mal_wo_f], or None
    selected_features_dict,  \* confidence -> what select_features returned, or None
    pickled,       \* the files pickle.dump has written
    \* ---- two feature extractions of one PDG (features_ngrams) ----
    hashseeds,     \* the hash seed of the Python process of each extraction
    runs,          \* history: [level, features_list] of every extraction
    \* ---- PDGs of a folder (pdgs_generation.store_pdg_folder) ----
    folder,        \* the main task: [pc, files, i]
    js_queue,      \* my_queue of store_pdg_folder: the files still to take
    pdg_workers,   \* per worker [pc, item]
    taken          \* history: <<worker, file>> for every my_queue.get

pdgVars == <<prog, pc, nodes, Node_id, handed, heap, var_loc, var_glob,
             unknown_var, id_list, stack, raised>>

featVars == <<level, features_choice, n_gram, features_list, features2int_dict,
              features_dict, total_features, csr>>

poolVars == <<my_queue, out_queue, except_queue, workers, main, analyses, dequeued>>

storeVars == <<store_pdg, exitcode, returned>>

selVars == <<call, sel_pc, logged, analysed, analyzed_features_dict,
             selected_features_dict, pickled>>

extractVars == <<hashseeds, runs>>

folderVars == <<folder, js_queue, pdg_workers, taken>>

restVars == <<storeVars, selVars, extractVars, folderVars>>

vars == <<pdgVars, data, featVars, poolVars, restVars>>

None == 0

\* a value that may be None where None cannot be told from it otherwise
\* (a list, a dict, a number): <<>> is None, <<x>> is x
Nothing == <<>>
Some(x) == <<x>>
IsNone(o) == Len(o) = 0
The(o) == o[1]

-----------------------------------------------------------------------------
(* JSON values                                                             *)

Dict(kv) == [t |-> "dict", v |-> kv]
List(els) == [t |-> "list", v |-> els]
Str(s) == [t |-> "str", v |-> s]
Num(s) == [t |-> "num", v |-> s]
Bool(s) == [t |-> "bool", v |-> s]
Null == [t |-> "null", v |-> "null"]

HasKey(d, k) == \E i \in 1..Len(d.v) : d.v[i][1] = k
Get(d, k) == d.v[CHOOSE i \in 1..Len(d.v) : d.v[i][1] = k][2]

Keys(d) == {d.v[i][1] : i \in 1..Len(d.v)}

\* d[k] = val
DictSet(d, k, val) ==
    IF HasKey(d, k)
    THEN Dict([i \in 1..Len(d.v) |-> IF d.v[i][1] = k THEN <<k, val>> ELSE d.v[i]])
    ELSE Dict(Append(d.v, <<k, val>>))

\* equality of Python dicts and lists: the order of the keys does not count
RECURSIVE JsonEq(_, _)
JsonEq(a, b) ==
    IF a.t # b.t THEN FALSE
    ELSE IF a.t = "dict"
    THEN /\ Keys(a) = Keys(b)
         /\ Len(a.v) = Len(b.v)
         /\ \A k \in Keys(a) : JsonEq(Get(a, k), Get(b, k))
    ELSE IF a.t = "list"
    THEN /\ Len(a.v) = Len(b.v)
         /\ \A i \in 1..Len(a.v) : JsonEq(a.v[i], b.v[i])
    ELSE a = b

-----------------------------------------------------------------------------
(* node.py                                                                 *)

Dependence(dependency_type, extremity, label, begin, end) ==
    [type |-> dependency_type, extremity |-> extremity, label |-> label,
     id_begin |-> begin, id_end |-> end]

increment_lost(id) == id

\* Node.id += 1
increment(id) == id + 1

Node(name, parent, nid) ==
    [name |-> name, id |-> nid, attributes |-> <<>>, body |-> "None",
     body_list |-> FALSE, parent |-> parent, children |-> <<>>,
     data_dep_parents |-> <<>>, data_dep_children |-> <<>>,
     control_dep_parents |-> <<>>, control_dep_children |-> <<>>,
     comment_dep_parents |-> <<>>, comment_dep_children |-> <<>>,
     statement_dep_parents |-> <<>>, statement_dep_children |-> <<>>]

statements ==
    {"BlockStatement", "BreakStatement", "ContinueStatement", "DoWhileStatement",
     "DebuggerStatement", "EmptyStatement", "ExpressionStatement", "ForStatement",
     "ForOfStatement", "ForInStatement", "IfStatement", "LabeledStatement",
     "ReturnStatement", "SwitchStatement", "ThrowStatement", "TryStatement",
     "WhileStatement", "WithStatement",
     "VariableDeclaration", "CatchClause", "SwitchCase", "ConditionalExpression",
     "FunctionDeclaration", "ClassDeclaration"}

is_statement(node) == node.name \in statements

is_comment(node) == node.name \in {"Line", "Block"}

is_leaf(node) == node.children = <<>>

HasAttr(node, k) == k \in DOMAIN node.attributes

set_attribute(ns, n, k, val) ==
    [ns EXCEPT ![n].attributes =
        [a \in (DOMAIN @) \cup {k} |-> IF a = k THEN val ELSE @[a]]]

set_child(ns, n, child) == [ns EXCEPT ![n].children = Append(@, child)]

set_data_dependency_lost(ns, u, extremity, begin, end) ==
    [ns EXCEPT ![u].data_dep_children =
        Append(@, Dependence("data dependency", extremity, "data", begin, end))]

set_data_dependency(ns, u, extremity, begin, end) ==
    [ns EXCEPT
        ![u].data_dep_children =
            Append(@, Dependence("data dependency", extremity, "data", begin, end)),
        ![extremity].data_dep_parents =
            Append(@, Dependence("data dependency", u, "data", begin, end))]

set_control_dependency(ns, u, extremity, label) ==
    [ns EXCEPT
        ![u].control_dep_children =
            Append(@, Dependence("control dependency", extremity, label, None, None)),
        ![extremity].control_dep_parents =
            Append(@, Dependence("control dependency", u, label, None, None))]

set_comment_dependency(ns, u, extremity) ==
    [ns EXCEPT
        ![u].comment_dep_children =
            Append(@, Dependence("comment dependency", extremity, "c", None, None)),
        ![extremity].comment_dep_parents =
            Append(@, Dependence("comment dependency", u, "c", None, None))]

set_statement_dependency(ns, u, extremity) ==
    [ns EXCEPT
        ![u].statement_dep_children =
            Append(@, Dependence("statement dependency", extremity, "s", None, None)),
        ![extremity].statement_dep_parents =
            Append(@, Dependence("statement dependency", u, "s", None, None))]

-----------------------------------------------------------------------------
(* handle_json.py: from JSON to Node objects                               *)

\* create_node up to its call of ast_to_ast_nodes(dico, node): the new Node
\* is the last of the result
create_node(ns, Node_id_now, dico, node_body, parent_node, cond) ==
    Append(set_child(ns, parent_node, Len(ns) + 1),
           [Node(Get(dico, "type").v, parent_node, Node_id_now)
               EXCEPT !.body = node_body, !.body_list = cond])

\* ast_to_ast_nodes(ast, ast_nodes) from key i (and element j of a list
\* value) up to its next create_node that makes a Node, or to its end.
\* `create` tells which; i and j are where the loop goes on afterwards.
RECURSIVE ast_to_ast_nodes(_, _, _, _, _)
ast_to_ast_nodes(ns, ast, ast_nodes, i, j) ==
    IF i > Len(ast.v)
    THEN [nodes |-> ns, create |-> FALSE, dico |-> Null, node_body |-> "None",
          cond |-> FALSE, i |-> i, j |-> 1]
    ELSE LET k == ast.v[i][1]
             val == ast.v[i][2]
             ns1 == IF j = 1 /\ (k = "range"
                                 \/ (k # "type" /\ val.t # "list" /\ val.t # "dict")
                                 \/ k = "regex")
                    THEN set_attribute(ns, ast_nodes, k, val)
                    ELSE ns
         IN  IF val.t = "dict"
             THEN IF k = "range"
                  THEN ast_to_ast_nodes(set_attribute(ns1, ast_nodes, k, val),
                                        ast, ast_nodes, i + 1, 1)
                  ELSE IF HasKey(val, "type")
                       THEN [nodes |-> ns1, create |-> TRUE, dico |-> val,
                             node_body |-> k, cond |-> FALSE, i |-> i + 1, j |-> 1]
                       ELSE ast_to_ast_nodes(ns1, ast, ast_nodes, i + 1, 1)
             ELSE IF val.t = "list"
             THEN LET ns2 == IF j = 1 /\ val.v = <<>>
                             THEN set_attribute(ns1, ast_nodes, k, val)
                             ELSE ns1
                  IN  IF j > Len(val.v)
                      THEN ast_to_ast_nodes(ns2, ast, ast_nodes, i + 1, 1)
                      ELSE IF val.v[j].t = "dict" /\ HasKey(val.v[j], "type")
                           THEN [nodes |-> ns2, create |-> TRUE, dico |-> val.v[j],
                                 node_body |-> k, cond |-> TRUE, i |-> i, j |-> j + 1]
                           ELSE ast_to_ast_nodes(ns2, ast, ast_nodes, i, j + 1)
             ELSE ast_to_ast_nodes(ns1, ast, ast_nodes, i + 1, 1)

\* build_json: `for att in ast_nodes.attributes: dico[att] = ...`
RECURSIVE set_attributes(_, _, _)
set_attributes(dico, attributes, todo) ==
    IF todo = {} THEN dico
    ELSE LET att == CHOOSE a \in todo : TRUE
         IN  set_attributes(DictSet(dico, att, attributes[att]), attributes, todo \ {att})

\* build_json, before it descends into child: a child of a list-valued key
\* makes sure that the list is there
build_json_before(dico, child) ==
    IF child.body_list /\ ~HasKey(dico, child.body)
    THEN DictSet(dico, child.body, List(<<>>))
    ELSE dico

\* build_json, once dico2 is built for child
build_json_after(dico, child, dico2) ==
    IF child.body_list
    THEN DictSet(dico, child.body, List(Append(Get(dico, child.body).v, dico2)))
    ELSE DictSet(dico, child.body, dico2)

-----------------------------------------------------------------------------
(* build_cfg.py.  A rule returns [nodes, raised]: the Node objects as the  *)
(* rule left them and the exception it raised, if any (reading a child     *)
(* that does not exist raises IndexError).                                 *)

EPSILON ==
    {"BlockStatement", "DebuggerStatement", "EmptyStatement",
     "ExpressionStatement", "LabeledStatement", "ReturnStatement",
     "ThrowStatement", "WithStatement", "CatchClause", "VariableDeclaration",
     "FunctionDeclaration"}

CONDITIONAL ==
    {"DoWhileStatement", "ForStatement", "ForOfStatement", "ForInStatement",
     "IfStatement", "SwitchCase", "SwitchStatement", "TryStatement",
     "WhileStatement", "ConditionalExpression"}

UNSTRUCTURED == {"BreakStatement", "ContinueStatement"}

Ok(ns) == [nodes |-> ns, raised |-> "None"]
Raise(ns, e) == [nodes |-> ns, raised |-> e]

extra_comment_node(ns, n, max_children) ==
    IF Len(ns[n].children) > max_children
       /\ is_comment(ns[ns[n].children[max_children + 1]])
    THEN set_comment_dependency(ns, n, ns[n].children[max_children + 1])
    ELSE ns

link_expression(ns, node, node_parent) ==
    IF is_comment(ns[node])
    THEN set_comment_dependency(ns, node_parent, node)
    ELSE set_statement_dependency(ns, node_parent, node)

RECURSIVE epsilon_loop(_, _, _)
epsilon_loop(ns, n, i) ==
    IF i > Len(ns[n].children) THEN ns
    ELSE LET child == ns[n].children[i]
         IN  epsilon_loop(IF is_statement(ns[child])
                          THEN set_control_dependency(ns, n, child, "e")
                          ELSE link_expression(ns, child, n),
                          n, i + 1)

epsilon_statement_cf(ns, n) == Ok(epsilon_loop(ns, n, 1))

do_while_cf(ns, n) ==
    LET ch == ns[n].children IN
    IF Len(ch) < 1 THEN Raise(ns, "IndexError")
    ELSE LET ns1 == set_control_dependency(ns, n, ch[1], "True") IN
         IF Len(ch) < 2 THEN Raise(ns1, "IndexError")
         ELSE Ok(extra_comment_node(link_expression(ns1, ch[2], n), n, 2))

RECURSIVE for_loop(_, _, _)
for_loop(ns, n, i) ==
    IF i > Len(ns[n].children) THEN ns
    ELSE LET child == ns[n].children[i]
         IN  for_loop(IF ns[child].body # "body"
                      THEN link_expression(ns, child, n)
                      ELSE IF ~is_comment(ns[child])
                           THEN set_control_dependency(ns, n, child, "True")
                           ELSE ns,
                      n, i + 1)

for_cf(ns, n) == Ok(extra_comment_node(for_loop(ns, n, 1), n, Len(ns[n].children)))

if_cf(ns, n) ==
    LET ch == ns[n].children IN
    IF Len(ch) < 1 THEN Raise(ns, "IndexError")
    ELSE LET ns1 == link_expression(ns, ch[1], n) IN
         IF Len(ch) < 2 THEN Raise(ns1, "IndexError")
         ELSE LET ns2 == set_control_dependency(ns1, n, ch[2], "True") IN
              IF Len(ch) > 2
              THEN IF is_comment(ns2[ch[3]])
                   THEN Ok(set_comment_dependency(ns2, n, ch[3]))
                   ELSE Ok(extra_comment_node(
                               set_control_dependency(ns2, n, ch[3], "False"), n, 3))
              ELSE Ok(ns2)

try_cf(ns, n) ==
    LET ch == ns[n].children IN
    IF Len(ch) < 1 THEN Raise(ns, "IndexError")
    ELSE LET ns1 == set_control_dependency(ns, n, ch[1], "True") IN
         IF Len(ch) < 2 THEN Raise(ns1, "IndexError")
         ELSE LET ns2 == IF ns1[ch[2]].body = "handler"
                         THEN set_control_dependency(ns1, n, ch[2], "False")
                         ELSE set_control_dependency(ns1, n, ch[2], "e") IN
              IF Len(ch) > 2
              THEN IF ns2[ch[3]].body = "finalizer"
                   THEN Ok(extra_comment_node(
                               set_control_dependency(ns2, n, ch[3], "e"), n, 3))
                   ELSE Ok(extra_comment_node(ns2, n, 2))
              ELSE Ok(ns2)

while_cf(ns, n) ==
    LET ch == ns[n].children IN
    IF Len(ch) < 1 THEN Raise(ns, "IndexError")
    ELSE LET ns1 == link_expression(ns, ch[1], n) IN
         IF Len(ch) < 2 THEN Raise(ns1, "IndexError")
         ELSE Ok(extra_comment_node(
                     set_control_dependency(ns1, n, ch[2], "True"), n, 2))

RECURSIVE switch_case_loop(_, _, _)
switch_case_loop(ns, n, i) ==
    IF i > Len(ns[n].children) THEN ns
    ELSE LET child == ns[n].children[i]
         IN  switch_case_loop(IF is_comment(ns[child])
                              THEN set_comment_dependency(ns, n, child)
                              ELSE set_control_dependency(ns, n, child, "True"),
                              n, i + 1)

switch_case_cf(ns, n, last) ==
    LET nb_child == Len(ns[n].children) IN
    IF nb_child > 1
    THEN IF ~last
         THEN switch_case_loop(link_expression(ns, ns[n].children[1], n), n, 2)
         ELSE switch_case_loop(ns, n, 1)
    ELSE IF nb_child = 1
         THEN set_control_dependency(ns, n, ns[n].children[1], "True")
         ELSE ns

RECURSIVE switch_loop(_, _, _)
switch_loop(ns, n, i) ==
    LET switch_cases == ns[n].children IN
    IF i > Len(switch_cases) THEN ns
    ELSE switch_loop(
             IF is_comment(ns[switch_cases[i]])
             THEN set_comment_dependency(ns, n, switch_cases[i])
             ELSE switch_case_cf(
                      set_control_dependency(ns, switch_cases[i - 1],
                                             switch_cases[i], "False"),
                      switch_cases[i], i = Len(switch_cases)),
             n, i + 1)

switch_cf(ns, n) ==
    LET switch_cases == ns[n].children IN
    IF Len(switch_cases) < 1 THEN Raise(ns, "IndexError")
    ELSE LET ns1 == link_expression(ns, switch_cases[1], n) IN
         IF Len(switch_cases) > 1
         THEN Ok(switch_loop(
                     switch_case_cf(
                         set_control_dependency(ns1, n, switch_cases[2], "e"),
                         switch_cases[2], FALSE),
                     n, 3))
         ELSE Ok(ns1)

conditional_statement_cf(ns, n) ==
    LET name == ns[n].name IN
    IF name = "DoWhileStatement" THEN do_while_cf(ns, n)
    ELSE IF name \in {"ForStatement", "ForOfStatement", "ForInStatement"}
         THEN for_cf(ns, n)
    ELSE IF name \in {"IfStatement", "ConditionalExpression"} THEN if_cf(ns, n)
    ELSE IF name = "WhileStatement" THEN while_cf(ns, n)
    ELSE IF name = "TryStatement" THEN try_cf(ns, n)
    ELSE IF name = "SwitchStatement" THEN switch_cf(ns, n)
    ELSE Ok(ns)  \* SwitchCase: already handled in SwitchStatement

RECURSIVE default_loop(_, _, _)
default_loop(ns, n, i) ==
    IF i > Len(ns[n].children) THEN ns
    ELSE LET grandchild == ns[n].children[i]
         IN  default_loop(IF ~is_statement(ns[grandchild])
                          THEN link_expression(ns, grandchild, n)
                          ELSE set_control_dependency(ns, n, grandchild, "e"),
                          n, i + 1)

\* one iteration of the loop of build_cfg, up to its call build_cfg(child)
build_cfg(ns, child) ==
    IF ns[child].name \in EPSILON \/ ns[child].name \in UNSTRUCTURED
    THEN epsilon_statement_cf(ns, child)
    ELSE IF ns[child].name \in CONDITIONAL
         THEN conditional_statement_cf(ns, child)
         ELSE Ok(default_loop(ns, child, 1))

-----------------------------------------------------------------------------
(* var_list.py.  `shared` records that var_list and before_limit_list are  *)
(* one and the same Python list (limit_scope assigns the one to the        *)
(* other), so that a write through var_list is a write to both.            *)

VarList ==
    [var_list |-> <<>>, ref_list |-> <<>>, fun_list |-> <<>>,
     limit |-> FALSE, before_limit_list |-> <<>>, after_limit_list |-> <<>>,
     shared |-> FALSE]

add_var(V, identifier_node, answer, fun) ==
    [V EXCEPT !.var_list = Append(@, identifier_node),
              !.before_limit_list = IF V.shared THEN Append(@, identifier_node) ELSE @,
              !.ref_list = Append(@, answer),
              !.fun_list = Append(@, fun)]

update_var(V, index, identifier_node, answer, fun) ==
    [V EXCEPT !.var_list[index] = identifier_node,
              !.before_limit_list = IF V.shared
                                    THEN [@ EXCEPT ![index] = identifier_node]
                                    ELSE @,
              !.ref_list[index] = answer,
              !.fun_list[index] = fun]

update_el_ref(V, index, answer) == [V EXCEPT !.ref_list[index] = answer]

is_equal(V1, V2) ==
    /\ V1.var_list = V2.var_list
    /\ V1.ref_list = V2.ref_list
    /\ V1.fun_list = V2.fun_list

copy_var_list(V) ==
    [VarList EXCEPT !.var_list = V.var_list, !.ref_list = V.ref_list,
                    !.fun_list = V.fun_list]

set_limit(V, limit) == [V EXCEPT !.limit = limit]

set_before_limit_list(V, limit_list) ==
    [V EXCEPT !.before_limit_list = limit_list, !.shared = FALSE]

add_el_limit_list(V, el) == [V EXCEPT !.after_limit_list = Append(@, el)]

-----------------------------------------------------------------------------
(* build_dfg.py.  The threaded value st is                                 *)
(*   [nodes, heap, unknown_var, id_list, raised].                          *)

\* js_reserved.RESERVED_WORDS_LOWER: the JavaScript reserved words
RESERVED_WORDS_LOWER ==
    {"break", "case", "catch", "class", "const", "continue", "debugger",
     "default", "delete", "do", "else", "export", "extends", "finally", "for",
     "function", "if", "import", "in", "instanceof", "new", "return", "super",
     "switch", "this", "throw", "try", "typeof", "var", "void", "while", "with",
     "yield", "let", "static", "enum", "await", "null", "true", "false"}

\* str.lower() on the identifiers the programs use
lower(s) == IF s = "Delete" THEN "delete" ELSE s

NameOf(ns, n) == ns[n].attributes["name"].v

Names(ns, list) == [i \in 1..Len(list) |-> NameOf(ns, list[i])]

Ids(ns, list) == {ns[list[i]].id : i \in 1..Len(list)}

get_pos_identifier(ns, identifier_node, V) ==
    LET id_name_list == Names(ns, V.var_list)
        var_name == NameOf(ns, identifier_node)
        found == {i \in 1..Len(id_name_list) : id_name_list[i] = var_name}
    IN  IF found # {} THEN CHOOSE i \in found : \A j \in found : i <= j ELSE None

RECURSIVE get_nearest_statement(_, _)
get_nearest_statement(ns, node) ==
    IF node = None THEN None
    ELSE IF is_statement(ns[node]) THEN node
    ELSE get_nearest_statement(ns, ns[node].parent)

\* node1.set_data_dependency(extremity=node2, ...) on the nearest statements
link_df(st, begin_stmt, end_stmt, begin, end) ==
    IF begin_stmt = None \/ end_stmt = None
    THEN [st EXCEPT !.raised = "AttributeError"]
    ELSE [st EXCEPT !.nodes = set_data_dependency(@, begin_stmt, end_stmt, begin, end)]

RECURSIVE set_df_loop(_, _, _, _)
set_df_loop(st, begin_df, i, identifier_node) ==
    IF i > Len(begin_df) THEN st
    ELSE set_df_loop(link_df(st, get_nearest_statement(st.nodes, begin_df[i]),
                             get_nearest_statement(st.nodes, identifier_node),
                             begin_df[i], identifier_node),
                     begin_df, i + 1, identifier_node)

set_df(st, var, var_index, identifier_node) ==
    LET answer == st.heap[var].ref_list[var_index]
        begin_id_df == st.heap[var].var_list[var_index]
    IN  IF answer # <<>>  \* get_nearest_statement returns answer, a list
        THEN set_df_loop(st, answer, 1, identifier_node)
        ELSE link_df(st, get_nearest_statement(st.nodes, begin_id_df),
                     get_nearest_statement(st.nodes, identifier_node),
                     begin_id_df, identifier_node)

assignment_df(st, identifier_node, vloc, vglob) ==
    LET var_index == get_pos_identifier(st.nodes, identifier_node, st.heap[vloc]) IN
    IF var_index # None
    THEN set_df(st, vloc, var_index, identifier_node)
    ELSE LET glob_index == get_pos_identifier(st.nodes, identifier_node, st.heap[vglob]) IN
         IF glob_index # None
         THEN set_df(st, vglob, glob_index, identifier_node)
         ELSE IF lower(NameOf(st.nodes, identifier_node)) \notin RESERVED_WORDS_LOWER
              THEN [st EXCEPT !.unknown_var = Append(@, identifier_node)]
              ELSE st

var_decl_df(st, node, vloc, vglob, entry, assignt, obj) ==
    LET my_var_list ==
            IF entry = 1 \/ (assignt /\ get_pos_identifier(st.nodes, node, st.heap[vloc]) = None)
            THEN vglob ELSE vloc
        var_index == get_pos_identifier(st.nodes, node, st.heap[my_var_list])
    IN  IF var_index = None
        THEN [st EXCEPT !.heap[my_var_list] = add_var(@, node, <<>>, FALSE)]
        ELSE LET st1 == IF assignt /\ obj
                        THEN set_df(st, my_var_list, var_index, node)
                        ELSE st
             IN  [st1 EXCEPT !.heap[my_var_list] = update_var(@, var_index, node, <<>>, FALSE)]

limit_scope(st, vloc) ==
    IF st.heap[vloc].limit
    THEN [st EXCEPT !.heap[vloc] =
             [@ EXCEPT !.limit = FALSE,
                       !.var_list = st.heap[vloc].before_limit_list,
                       !.shared = TRUE]]
    ELSE st

\* returns [tab, id_list]
RECURSIVE search_identifiers(_, _, _, _, _)
RECURSIVE search_identifiers_loop(_, _, _, _, _, _)
search_identifiers(ns, node, idl, tab, rec) ==
    LET nd == ns[node]
        same == [tab |-> tab, id_list |-> idl]
        found == [tab |-> Append(tab, node), id_list |-> idl]
    IN  IF nd.name = "ObjectExpression" THEN same
        ELSE IF nd.name = "Identifier"
        THEN LET par == ns[nd.parent] IN
             IF par.name = "MemberExpression"
             THEN IF par.children[1] = node
                  THEN IF NameOf(ns, node) = "this" \/ NameOf(ns, node) = "window"
                       THEN LET prop == par.children[2] IN
                            [tab |-> IF ns[prop].name = "Identifier"
                                     THEN Append(tab, prop) ELSE tab,
                             id_list |-> idl \cup {nd.id}]
                       ELSE found
                  ELSE IF ns[par.children[1]].name = "ThisExpression" THEN found
                  ELSE IF par.attributes["computed"].v = "true" THEN found
                  ELSE same
             ELSE found
        ELSE IF rec THEN search_identifiers_loop(ns, node, 1, idl, tab, rec)
        ELSE same

search_identifiers_loop(ns, node, i, idl, tab, rec) ==
    IF i > Len(ns[node].children) THEN [tab |-> tab, id_list |-> idl]
    ELSE LET r == search_identifiers(ns, ns[node].children[i], idl, tab, rec)
         IN  search_identifiers_loop(ns, node, i + 1, r.id_list, r.tab, rec)

RECURSIVE hoisting_loop(_, _, _, _)
hoisting_loop(st, node, unknown_var_copy, i) ==
    IF i > Len(unknown_var_copy) THEN st
    ELSE LET unknown == unknown_var_copy[i] IN
         IF NameOf(st.nodes, node) = NameOf(st.nodes, unknown)
         THEN LET st1 == link_df(st, get_nearest_statement(st.nodes, node),
                                 get_nearest_statement(st.nodes, unknown),
                                 node, unknown)
                  \* list.remove: the first occurrence
                  k == CHOOSE j \in 1..Len(st1.unknown_var) :
                           /\ st1.unknown_var[j] = unknown
                           /\ \A m \in 1..(j - 1) : st1.unknown_var[m] # unknown
              IN  hoisting_loop(
                      [st1 EXCEPT !.unknown_var =
                          SubSeq(@, 1, k - 1) \o SubSeq(@, k + 1, Len(@))],
                      node, unknown_var_copy, i + 1)
         ELSE hoisting_loop(st, node, unknown_var_copy, i + 1)

hoisting(st, node) == hoisting_loop(st, node, st.unknown_var, 1)

RECURSIVE merge_inner(_, _, _, _, _)
merge_inner(ns, before_ids, T, node_false, k) ==
    IF k > Len(T.var_list) THEN T
    ELSE LET node_true == T.var_list[k] IN
         IF NameOf(ns, node_false) = NameOf(ns, node_true)
            /\ ns[node_false].id # ns[node_true].id
         THEN LET var_index == get_pos_identifier(ns, node_true, T) IN
              merge_inner(ns, before_ids,
                  IF ns[node_true].id \in before_ids
                  THEN update_var(T, var_index, node_false, <<>>, FALSE)
                  ELSE IF ns[node_false].id \in before_ids
                       THEN T
                       ELSE update_el_ref(T, var_index, <<node_true, node_false>>),
                  node_false, k + 1)
         ELSE merge_inner(ns, before_ids, T, node_false, k + 1)

RECURSIVE merge_outer(_, _, _, _, _)
merge_outer(ns, before_ids, T, false_list, j) ==
    IF j > Len(false_list) THEN T
    ELSE LET node_false == false_list[j]
             T1 == IF \A i \in 1..Len(T.var_list) :
                          NameOf(ns, node_false) # NameOf(ns, T.var_list[i])
                   THEN add_var(T, node_false, <<>>, FALSE)
                   ELSE T
         IN  merge_outer(ns, before_ids, merge_inner(ns, before_ids, T1, node_false, 1),
                         false_list, j + 1)

\* var_list_before_cond is passed as the value of its var_list
merge_var_boolean_cf(st, var_list_before_cond, var_list_true, var_list_false) ==
    [st EXCEPT !.heap[var_list_true] =
        merge_outer(st.nodes, Ids(st.nodes, var_list_before_cond), @,
                    st.heap[var_list_false].var_list, 1)]

\* a new VarList object: its reference is NewRef(st) in Alloc(st, V)
NewRef(st) == Len(st.heap) + 1
Alloc(st, V) == [st EXCEPT !.heap = Append(@, V)]

HasValue(node, val) == \E k \in DOMAIN node.attributes : node.attributes[k] = val

\* for decl in identifiers: id_list.append(decl.id); var_decl_df(decl, ...)
RECURSIVE decl_loop(_, _, _, _, _, _, _)
decl_loop(st, identifiers, i, vloc, vglob, entry, hoist) ==
    IF i > Len(identifiers) THEN st
    ELSE LET decl == identifiers[i]
             st1 == [st EXCEPT !.id_list = @ \cup {st.nodes[decl].id}]
             st2 == var_decl_df(st1, decl, vloc, vglob, entry, FALSE, FALSE)
         IN  decl_loop(IF hoist THEN hoisting(st2, decl) ELSE st2,
                       identifiers, i + 1, vloc, vglob, entry, hoist)

\* the body of the loop over the assignees of assignment_expr_df
assignee_df(st, assignee, vloc, vglob, entry, call_expr) ==
    LET ns == st.nodes
        par == ns[ns[assignee].parent]
        st1 ==
            IF \/ /\ par.name = "MemberExpression"
                  /\ ns[par.children[1]].name # "ThisExpression"
                  /\ ~HasValue(ns[par.children[1]], Str("window"))
               \/ /\ par.name = "MemberExpression"
                  /\ ns[par.parent].name = "MemberExpression"
            THEN IF par.attributes["computed"].v = "true"
                 THEN assignment_df(st, assignee, vloc, vglob)
                 ELSE IF call_expr
                      THEN IF \/ get_pos_identifier(ns, assignee, st.heap[vloc]) # None
                              \/ get_pos_identifier(ns, assignee, st.heap[vglob]) # None
                           THEN var_decl_df(st, assignee, vloc, vglob, entry, TRUE, TRUE)
                           ELSE st
                      ELSE var_decl_df(st, assignee, vloc, vglob, entry, TRUE, TRUE)
            ELSE var_decl_df(st, assignee, vloc, vglob, entry, TRUE, FALSE)
    IN  IF HasAttr(par, "operator") /\ par.attributes["operator"] # Str("=")
        THEN assignment_df(st1, assignee, vloc, vglob)
        ELSE st1

RECURSIVE assignee_loop(_, _, _, _, _, _, _)
assignee_loop(st, identifiers, i, vloc, vglob, entry, call_expr) ==
    IF i > Len(identifiers) THEN st
    ELSE assignee_loop(
             assignee_df([st EXCEPT !.id_list = @ \cup {st.nodes[identifiers[i]].id}],
                         identifiers[i], vloc, vglob, entry, call_expr),
             identifiers, i + 1, vloc, vglob, entry, call_expr)

RECURSIVE update_loop(_, _, _, _, _, _)
update_loop(st, arguments, i, vloc, vglob, entry) ==
    IF i > Len(arguments) THEN st
    ELSE LET st1 == assignment_df(st, arguments[i], vloc, vglob)
             st2 == var_decl_df(st1, arguments[i], vloc, vglob, entry, TRUE, FALSE)
         IN  update_loop(assignment_df(st2, arguments[i], vloc, vglob),
                         arguments, i + 1, vloc, vglob, entry)

update_expr_df(st, node, vloc, vglob, entry) ==
    LET r == search_identifiers(st.nodes, st.nodes[node].children[1], st.id_list, <<>>, TRUE)
    IN  update_loop([st EXCEPT !.id_list = r.id_list], r.tab, 1, vloc, vglob, entry)

\* search_identifiers(node, rec=False) of an Identifier finds at most itself
identifier_update(st, node, vloc, vglob, entry) ==
    LET r == search_identifiers(st.nodes, node, st.id_list, <<>>, FALSE)
        st1 == [st EXCEPT !.id_list = r.id_list]
    IN  IF r.tab = <<>> THEN st1
        ELSE IF st.nodes[st.nodes[r.tab[1]].parent].name = "CatchClause"
        THEN var_decl_df(st1, node, vloc, vglob, entry, FALSE, FALSE)
        ELSE assignment_df(st1, r.tab[1], vloc, vglob)

build_df_identifier(st, node, vloc, vglob, entry) ==
    IF st.nodes[node].id \notin st.id_list
    THEN identifier_update(st, node, vloc, vglob, entry)
    ELSE st

merge_or_raise(st, bound, before, var_list_true, var_list_false) ==
    IF is_equal(st.heap[var_list_true], st.heap[var_list_false]) THEN st
    ELSE IF ~bound THEN [st EXCEPT !.raised = "UnboundLocalError"]
    ELSE merge_var_boolean_cf(st, before, var_list_true, var_list_false)

\* for node in var_loc.var_list: ... var_loc.add_el_limit_list(node)
RECURSIVE after_limit_loop(_, _, _)
after_limit_loop(ns, V, i) ==
    IF i > Len(V.var_list) THEN V
    ELSE after_limit_loop(ns,
             IF /\ ns[V.var_list[i]].id \notin Ids(ns, V.before_limit_list)
                /\ ns[V.var_list[i]].id \notin Ids(ns, V.after_limit_list)
             THEN add_el_limit_list(V, V.var_list[i])
             ELSE V,
             i + 1)

-----------------------------------------------------------------------------
(* The programs under analysis, as the JSON that Esprima produces for      *)
(* them (keys in Esprima's order).                                         *)

Identifier(name) == Dict(<< <<"type", Str("Identifier")>>, <<"name", Str(name)>> >>)

Literal(raw) ==
    Dict(<< <<"type", Str("Literal")>>, <<"value", Num(raw)>>, <<"raw", Str(raw)>> >>)

\* a literal of any kind: `value` is the JSON value that Esprima serialises
LiteralOf(value, raw) ==
    Dict(<< <<"type", Str("Literal")>>, <<"value", value>>, <<"raw", Str(raw)>> >>)

\* a regular expression: its `value` is serialised as {} and the pattern is
\* in `regex`
RegexLiteral(raw, pattern, flags) ==
    Dict(<< <<"type", Str("Literal")>>, <<"value", Dict(<<>>)>>, <<"raw", Str(raw)>>,
            <<"regex", Dict(<< <<"pattern", Str(pattern)>>,
                               <<"flags", Str(flags)>> >>)>> >>)

VariableDeclaration(kind, name, init) ==
    Dict(<< <<"type", Str("VariableDeclaration")>>,
            <<"declarations", List(<<
                Dict(<< <<"type", Str("VariableDeclarator")>>,
                        <<"id", Identifier(name)>>,
                        <<"init", init>> >>) >>)>>,
            <<"kind", Str(kind)>> >>)

Property(name, value) ==
    Dict(<< <<"type", Str("Property")>>, <<"key", Identifier(name)>>,
            <<"computed", Bool("false")>>, <<"value", value>>,
            <<"kind", Str("init")>>, <<"method", Bool("false")>>,
            <<"shorthand", Bool("false")>> >>)

ObjectExpression(properties) ==
    Dict(<< <<"type", Str("ObjectExpression")>>, <<"properties", List(properties)>> >>)

ExpressionStatement(expression) ==
    Dict(<< <<"type", Str("ExpressionStatement")>>, <<"expression", expression>> >>)

AssignmentExpression(left, right) ==
    Dict(<< <<"type", Str("AssignmentExpression")>>, <<"operator", Str("=")>>,
            <<"left", left>>, <<"right", right>> >>)

BinaryExpression(operator, left, right) ==
    Dict(<< <<"type", Str("BinaryExpression")>>, <<"operator", Str(operator)>>,
            <<"left", left>>, <<"right", right>> >>)

CallExpression(callee, arguments) ==
    Dict(<< <<"type", Str("CallExpression")>>, <<"callee", callee>>,
            <<"arguments", List(arguments)>> >>)

ArrayExpression(elements) ==
    Dict(<< <<"type", Str("ArrayExpression")>>, <<"elements", List(elements)>> >>)

BlockStatement(body) == Dict(<< <<"type", Str("BlockStatement")>>, <<"body", List(body)>> >>)

IfStatement(test, consequent, alternate) ==
    Dict(<< <<"type", Str("IfStatement")>>, <<"test", test>>,
            <<"consequent", consequent>>, <<"alternate", alternate>> >>)

FunctionDeclaration(name, body) ==
    Dict(<< <<"type", Str("FunctionDeclaration")>>, <<"id", Identifier(name)>>,
            <<"params", List(<<>>)>>, <<"body", BlockStatement(body)>>,
            <<"generator", Bool("false")>>, <<"expression", Bool("false")>>,
            <<"async", Bool("false")>> >>)

WhileStatement(test, body) ==
    Dict(<< <<"type", Str("WhileStatement")>>, <<"test", test>>, <<"body", body>> >>)

BreakStatement == Dict(<< <<"type", Str("BreakStatement")>>, <<"label", Null>> >>)

ConditionalExpression(test, consequent, alternate) ==
    Dict(<< <<"type", Str("ConditionalExpression")>>, <<"test", test>>,
            <<"consequent", consequent>>, <<"alternate", alternate>> >>)

FunctionExpression(body) ==
    Dict(<< <<"type", Str("FunctionExpression")>>, <<"id", Null>>,
            <<"params", List(<<>>)>>, <<"body", BlockStatement(body)>>,
            <<"generator", Bool("false")>>, <<"expression", Bool("false")>>,
            <<"async", Bool("false")>> >>)

\* `case <test>: <consequent>` and, with test Null, `default: <consequent>`
SwitchCase(test, consequent) ==
    Dict(<< <<"type", Str("SwitchCase")>>, <<"test", test>>,
            <<"consequent", List(consequent)>> >>)

SwitchStatement(discriminant, cases) ==
    Dict(<< <<"type", Str("SwitchStatement")>>, <<"discriminant", discriminant>>,
            <<"cases", List(cases)>> >>)

Program(body) ==
    Dict(<< <<"type", Str("Program")>>, <<"body", List(body)>>,
            <<"sourceType", Str("script")>> >>)

Assign(name, right) == ExpressionStatement(AssignmentExpression(Identifier(name), right))

\* the statements the programs are made of, by their source text
Statements ==
    {"var x = 1;", "let x = 0;", "x = x + 1;", "x;", "{ let x = 1; }",
     "if (c) { x = 1; } else { x = 2; }", "x();", "function x() {}",
     "Delete(x, x);", "var o = {x: 2, b: x};"}

\* documents no parser gives: a conditional form that lacks the children
\* its rule of build_cfg reads
Malformed(text) ==
    CASE text = "IfStatement(test)" ->
            Dict(<< <<"type", Str("IfStatement")>>, <<"test", Identifier("c")>> >>)
      [] text = "WhileStatement(test)" ->
            Dict(<< <<"type", Str("WhileStatement")>>, <<"test", Identifier("c")>> >>)
      [] text = "DoWhileStatement(body)" ->
            Dict(<< <<"type", Str("DoWhileStatement")>>, <<"body", BlockStatement(<<>>)>> >>)
      [] text = "TryStatement(block)" ->
            Dict(<< <<"type", Str("TryStatement")>>, <<"block", BlockStatement(<<>>)>> >>)

Parse(text) ==
    CASE text = "var x = 1;" -> VariableDeclaration("var", "x", Literal("1"))
      [] text = "let x = 0;" -> VariableDeclaration("let", "x", Literal("0"))
      [] text = "x = x + 1;" ->
            Assign("x", BinaryExpression("+", Identifier("x"), Literal("1")))
      [] text = "x;" -> ExpressionStatement(Identifier("x"))
      [] text = "{ let x = 1; }" -> BlockStatement(<<VariableDeclaration("let", "x", Literal("1"))>>)
      [] text = "if (c) { x = 1; } else { x = 2; }" ->
            IfStatement(Identifier("c"),
                        BlockStatement(<<Assign("x", Literal("1"))>>),
                        BlockStatement(<<Assign("x", Literal("2"))>>))
      [] text = "[, x];" ->
           ExpressionStatement(ArrayExpression(<<Null, Identifier("x")>>))
      [] text = "[,];" -> ExpressionStatement(ArrayExpression(<<Null>>))
      [] text = "[x, 1];" ->
           ExpressionStatement(ArrayExpression(<<Identifier("x"), Literal("1")>>))
      [] text = "x();" -> ExpressionStatement(CallExpression(Identifier("x"), <<>>))
      [] text = "function x() {}" -> FunctionDeclaration("x", <<>>)
      [] text = "Delete(x, x);" ->
           ExpressionStatement(CallExpression(Identifier("Delete"),
                                              <<Identifier("x"), Identifier("x")>>))
      [] text = "var o = {x: 2, b: x};" ->
            VariableDeclaration("var", "o",
                ObjectExpression(<<Property("x", Literal("2")),
                                   Property("b", Identifier("x"))>>))
      [] text = "break;" ->
            Dict(<< <<"type", Str("BreakStatement")>>, <<"label", Null>> >>)
      [] text = "while (c) { if (c) { break; } x; y; }" ->
            WhileStatement(Identifier("c"),
                BlockStatement(<<IfStatement(Identifier("c"),
                                             BlockStatement(<<BreakStatement>>), Null),
                                 ExpressionStatement(Identifier("x")),
                                 ExpressionStatement(Identifier("y"))>>))
      [] text = "x = c ? 1 : 2;" ->
            Assign("x", ConditionalExpression(Identifier("c"), Literal("1"), Literal("2")))
      [] text = "x = function () {};" -> Assign("x", FunctionExpression(<<>>))
      [] text = "switch (x) { case 1: x; }" ->
            SwitchStatement(Identifier("x"),
                <<SwitchCase(Literal("1"), <<ExpressionStatement(Identifier("x"))>>)>>)
      [] text = "switch (x) { case 1: x; case 2: x; }" ->
            SwitchStatement(Identifier("x"),
                <<SwitchCase(Literal("1"), <<ExpressionStatement(Identifier("x"))>>),
                  SwitchCase(Literal("2"), <<ExpressionStatement(Identifier("x"))>>)>>)
      [] text = "switch (x) { case 1: x; default: x; case 2: x; }" ->
            SwitchStatement(Identifier("x"),
                <<SwitchCase(Literal("1"), <<ExpressionStatement(Identifier("x"))>>),
                  SwitchCase(Null, <<ExpressionStatement(Identifier("x"))>>),
                  SwitchCase(Literal("2"), <<ExpressionStatement(Identifier("x"))>>)>>)
      [] text = "switch (x) { default: x; y; case 1: x; }" ->
            SwitchStatement(Identifier("x"),
                <<SwitchCase(Null, <<ExpressionStatement(Identifier("x")),
                                     ExpressionStatement(Identifier("y"))>>),
                  SwitchCase(Literal("1"), <<ExpressionStatement(Identifier("x"))>>)>>)
      [] text = "switch (x) { case 1: x; default: x; }" ->
            SwitchStatement(Identifier("x"),
                <<SwitchCase(Literal("1"), <<ExpressionStatement(Identifier("x"))>>),
                  SwitchCase(Null, <<ExpressionStatement(Identifier("x"))>>)>>)
      [] text = "true;" -> ExpressionStatement(LiteralOf(Bool("true"), "true"))
      [] text = "false;" -> ExpressionStatement(LiteralOf(Bool("false"), "false"))
      [] text = "1;" -> ExpressionStatement(LiteralOf(Num("1"), "1"))
      [] text = "1.5;" -> ExpressionStatement(LiteralOf(Num("1.5"), "1.5"))
      [] text = "'s';" -> ExpressionStatement(LiteralOf(Str("s"), "'s'"))
      [] text = "null;" -> ExpressionStatement(LiteralOf(Null, "null"))
      [] text = "/a/;" -> ExpressionStatement(RegexLiteral("/a/", "a", ""))
      [] OTHER -> Malformed(text)

MaxStmts == 3

RECURSIVE SeqsUpTo(_, _)
SeqsUpTo(S, n) ==
    IF n = 0 THEN {<<>>}
    ELSE LET shorter == SeqsUpTo(S, n - 1)
         IN  shorter \cup {Append(q, e) : q \in {r \in shorter : Len(r) = n - 1}, e \in S}

\* a program is a sequence of statements, at top level or as the body of
\* `function f() { ... }`
Programs ==
    [inFunction : BOOLEAN, body : SeqsUpTo(Statements, MaxStmts) \ {<<>>}]

\* the documents of the round trip: array literals with holes (null entries
\* of `elements`), with or without the `range` of every node
JsonStatements == {"x;", "var x = 1;", "function x() {}", "[, x];", "[,];", "[x, 1];"}

MaxJsonStmts == 2

JsonPrograms ==
    [inFunction : {FALSE}, range : BOOLEAN,
     body : SeqsUpTo(JsonStatements, MaxJsonStmts) \ {<<>>}]

\* the trees of build_cfg: well-formed statements and malformed conditionals
SwitchStatements ==
    {"switch (x) { case 1: x; }", "switch (x) { case 1: x; case 2: x; }",
     "switch (x) { case 1: x; default: x; case 2: x; }",
     "switch (x) { default: x; y; case 1: x; }",
     "switch (x) { case 1: x; default: x; }"}

BreakInLoop == "while (c) { if (c) { break; } x; y; }"

CfgStatements ==
    {"x;", "if (c) { x = 1; } else { x = 2; }", "{ let x = 1; }", "break;",
     "IfStatement(test)", "WhileStatement(test)", "DoWhileStatement(body)",
     "TryStatement(block)", BreakInLoop, "x = c ? 1 : 2;", "x = function () {};"}
    \cup SwitchStatements

MaxCfgStmts == 2

CfgPrograms ==
    [inFunction : BOOLEAN, body : SeqsUpTo(CfgStatements, MaxCfgStmts) \ {<<>>}]

\* esprima's option range: every node gets "range": [begin, end]
RECURSIVE WithRange(_)
WithRange(json) ==
    IF json.t = "dict"
    THEN Dict([i \in 1..Len(json.v) |-> <<json.v[i][1], WithRange(json.v[i][2])>>]
              \o (IF HasKey(json, "type")
                  THEN << <<"range", List(<<Num("0"), Num("9")>>)>> >>
                  ELSE <<>>))
    ELSE IF json.t = "list"
    THEN List([i \in 1..Len(json.v) |-> WithRange(json.v[i])])
    ELSE json

Esprima(p) ==
    LET body == [i \in 1..Len(p.body) |-> Parse(p.body[i])]
        ast == IF p.inFunction THEN Program(<<FunctionDeclaration("f", body)>>)
               ELSE Program(body)
    IN  IF "range" \in DOMAIN p /\ p.range THEN WithRange(ast) ELSE ast

-----------------------------------------------------------------------------
(* pdgs_generation.get_data_flow.  Each action is one step of the function *)
(* on top of the call stack.  A frame holds the function's arguments and   *)
(* locals.  The value a data-flow function returns is stored in its        *)
(* caller's var_loc, as every call site does (`var_loc = build_dfg(...)`). *)
(* pc is the position of get_data_flow: "ast" (nothing built),             *)
(* "ast_nodes", "cfg_nodes", "dfg_nodes" (that graph is built), "failed".  *)

Frame(fn, node, vloc, vglob, entry) ==
    [fn |-> fn, node |-> node, var_loc |-> vloc, var_glob |-> vglob,
     entry |-> entry, phase |-> "start", i |-> 1, j |-> 1, flag |-> FALSE,
     ast |-> Null, dico |-> Dict(<<>>), out_var_list |-> None, todo_true |-> <<>>,
     todo_false |-> <<>>, before_loc |-> <<>>, before_glob |-> <<>>,
     bound |-> FALSE, temp_loc |-> None, temp_glob |-> None, true_loc |-> None]

Top == stack[Len(stack)]

Running(fn) == stack # <<>> /\ Top.fn = fn

St == [nodes |-> nodes, heap |-> heap, unknown_var |-> unknown_var,
       id_list |-> id_list, raised |-> raised]

SetTop(stk, f) == [stk EXCEPT ![Len(stk)] = f]

Call(stk, f, callee) == Append(SetTop(stk, f), callee)

Pop(stk) == SubSeq(stk, 1, Len(stk) - 1)

Return(stk, value) == [Pop(stk) EXCEPT ![Len(stk) - 1].var_loc = value]

\* the effect of a step that stays within the running stage; an exception
\* unwinds the stack and ends the run
Goto(st, stk) ==
    /\ nodes' = st.nodes
    /\ heap' = st.heap
    /\ unknown_var' = st.unknown_var
    /\ id_list' = st.id_list
    /\ raised' = st.raised
    /\ stack' = IF st.raised # "None" THEN <<>> ELSE stk
    /\ pc' = IF st.raised # "None" THEN "failed" ELSE pc
    /\ UNCHANGED <<data, featVars, poolVars, restVars, prog, Node_id, handed, var_loc, var_glob>>

\* nothing saved, no feature analysis, no pool, nothing stored
NoJson == data = Null

NoStore ==
    /\ store_pdg = "absent"
    /\ exitcode = "None"
    /\ returned = "None"

NoSelection ==
    /\ call = [js_dirs_validate |-> <<>>, labels_validate |-> <<>>,
               analyzed_features_path |-> "None", chi_confidence |-> 99]
    /\ sel_pc = "None"
    /\ logged = <<>>
    /\ analysed = <<>>
    /\ analyzed_features_dict = Nothing
    /\ selected_features_dict = {}
    /\ pickled = {}

NoExtraction ==
    /\ hashseeds = <<0, 0>>
    /\ runs = <<>>

\* store_pdg_folder has not been called
NoFolder ==
    /\ folder = [pc |-> "idle", files |-> <<>>, i |-> 1]
    /\ js_queue = <<>>
    /\ pdg_workers = <<>>
    /\ taken = <<>>

NoRest == NoStore /\ NoSelection /\ NoExtraction /\ NoFolder

NoFeatures ==
    /\ level = "None"
    /\ features_choice = "None"
    /\ n_gram = 0
    /\ features_list = Nothing
    /\ features2int_dict = <<>>
    /\ features_dict = Nothing
    /\ total_features = Nothing
    /\ csr = Nothing

NoPool ==
    /\ my_queue = <<>>
    /\ out_queue = [buffer |-> <<>>, pipe |-> <<>>, put |-> <<>>]
    /\ except_queue = <<>>
    /\ workers = <<>>
    /\ main = [pc |-> "None", files2do |-> <<>>, i |-> 0, all_exited |-> FALSE]
    /\ analyses = <<>>
    /\ dequeued = <<>>

\* Node.id is 1 once handle_json is imported: the default argument
\* Node('Program') of ast_to_ast_nodes has taken id 0
NewRun(programs) ==
    /\ prog \in programs
    /\ pc = "ast"
    /\ nodes = <<>>
    /\ Node_id = 1
    /\ handed = << <<0>> >>
    /\ heap = <<>>
    /\ var_loc = None
    /\ var_glob = None
    /\ unknown_var = <<>>
    /\ id_list = {}
    /\ stack = <<>>
    /\ raised = "None"

InitPDG == NewRun(Programs) /\ NoJson /\ NoRest /\ NoFeatures /\ NoPool

\* get_data_flow's three calls:
\*   ast_nodes = ast_to_ast_nodes(ast, ast_nodes=Node('Program'))
\*   cfg_nodes = build_cfg(ast_nodes)
\*   df_scoping(cfg_nodes, var_loc=VarList(), var_glob=VarList(),
\*              unknown_var=unknown_var, id_list=[], entry=1)
GetAstNodes ==
    /\ stack = <<>>
    /\ pc = "ast"
    /\ nodes' = <<Node("Program", None, Node_id)>>
    /\ Node_id' = increment(Node_id)
    /\ handed' = Append(handed, <<Node_id>>)
    /\ stack' = <<[Frame("ast_to_ast_nodes", 1, None, None, 0)
                      EXCEPT !.ast = Esprima(prog)]>>
    /\ UNCHANGED <<data, featVars, poolVars, restVars, prog, pc, heap, var_loc, var_glob,
                   unknown_var, id_list, raised>>

GetCfgNodes ==
    /\ stack = <<>>
    /\ pc = "ast_nodes"
    /\ stack' = <<Frame("build_cfg", 1, None, None, 0)>>
    /\ UNCHANGED <<data, featVars, poolVars, restVars, prog, pc, nodes, Node_id, handed, heap,
                   var_loc, var_glob, unknown_var, id_list, raised>>

GetDfgNodes ==
    /\ stack = <<>>
    /\ pc = "cfg_nodes"
    /\ heap' = <<VarList, VarList>>
    /\ var_glob' = 2
    /\ stack' = <<Frame("df_scoping", 1, 1, 2, 1)>>
    /\ UNCHANGED <<data, featVars, poolVars, restVars, prog, pc, nodes, Node_id, handed,
                   var_loc, unknown_var, id_list, raised>>

GetDataFlow == GetAstNodes \/ GetCfgNodes \/ GetDfgNodes

\* the return of a stage to get_data_flow
Built(graph) ==
    /\ stack' = <<>>
    /\ pc' = graph

\* ast_to_ast_nodes: on to the next Node to create, or to the end
AstToAstNodes ==
    /\ Running("ast_to_ast_nodes")
    /\ LET f == Top
           r == ast_to_ast_nodes(nodes, f.ast, f.node, f.i, f.j)
       IN  IF r.create
           THEN /\ nodes' = create_node(r.nodes, Node_id, r.dico, r.node_body,
                                        f.node, r.cond)
                /\ Node_id' = increment(Node_id)
                /\ handed' = [handed EXCEPT ![Len(handed)] = Append(@, Node_id)]
                /\ stack' = Call(stack, [f EXCEPT !.i = r.i, !.j = r.j],
                                 [Frame("ast_to_ast_nodes", Len(r.nodes) + 1, None, None, 0)
                                     EXCEPT !.ast = r.dico])
                /\ pc' = pc
           ELSE /\ nodes' = r.nodes
                /\ Node_id' = Node_id
                /\ handed' = handed
                /\ IF Len(stack) > 1
                   THEN stack' = Pop(stack) /\ pc' = pc
                   ELSE Built("ast_nodes")
    /\ UNCHANGED <<data, featVars, poolVars, restVars, prog, heap, var_loc, var_glob, unknown_var, id_list, raised>>

\* build_cfg: for child in ast_nodes.children: <rule of child>; build_cfg(child)
BuildCfg ==
    /\ Running("build_cfg")
    /\ LET f == Top IN
       IF f.i <= Len(nodes[f.node].children)
       THEN LET child == nodes[f.node].children[f.i]
                r == build_cfg(nodes, child)
            IN  Goto([St EXCEPT !.nodes = r.nodes, !.raised = r.raised],
                     Call(stack, [f EXCEPT !.i = @ + 1],
                          Frame("build_cfg", child, None, None, 0)))
       ELSE IF Len(stack) > 1
       THEN Goto(St, Pop(stack))
       ELSE /\ Built("cfg_nodes")
            /\ UNCHANGED <<data, featVars, poolVars, restVars, prog, nodes, Node_id, handed, heap, var_loc, var_glob,
                           unknown_var, id_list, raised>>

\* for child in cfg_nodes.children: var_loc = build_dfg(child, ...)
DfScoping ==
    /\ Running("df_scoping")
    /\ LET f == Top IN
       IF f.i <= Len(nodes[f.node].children)
       THEN Goto(St, Call(stack, [f EXCEPT !.i = @ + 1],
                          Frame("build_dfg", nodes[f.node].children[f.i],
                                f.var_loc, f.var_glob, f.entry)))
       ELSE IF Len(stack) > 1
       THEN Goto(St, Return(stack, f.var_loc))
       ELSE /\ Built("dfg_nodes")
            /\ var_loc' = f.var_loc
            /\ UNCHANGED <<data, featVars, poolVars, restVars, prog, nodes, Node_id, handed, heap, var_glob, unknown_var,
                           id_list, raised>>

\* build_dfg: the dispatch on the kind of node; the callee takes the place
\* of build_dfg when build_dfg returns what the callee returns
BuildDfg ==
    /\ Running("build_dfg")
    /\ LET f == Top
           child == f.node
           nd == nodes[child]
           callee(fn, entry) == Frame(fn, child, f.var_loc, f.var_glob, entry)
       IN
       IF f.phase = "let"  \* build_df_variable_declaration has returned
       THEN Goto([St EXCEPT !.heap[f.var_loc] =
                      after_limit_loop(nodes, set_limit(@, TRUE), 1)],
                 Return(stack, f.var_loc))
       ELSE IF nd.name = "VariableDeclaration"
       THEN IF nd.attributes["kind"] # Str("var")
            THEN Goto(IF heap[f.var_loc].before_limit_list = <<>>
                      THEN [St EXCEPT !.heap[f.var_loc] =
                               set_before_limit_list(@, heap[f.var_loc].var_list)]
                      ELSE St,
                      Call(stack, [f EXCEPT !.phase = "let"],
                           callee("build_df_variable_declaration", f.entry)))
            ELSE Goto(St, SetTop(stack, callee("build_df_variable_declaration", f.entry)))
       ELSE IF nd.name = "AssignmentExpression"
       THEN Goto(St, SetTop(stack, callee("assignment_expr_df", f.entry)))
       ELSE IF \/ /\ nd.name = "CallExpression"
                  /\ nodes[nd.children[1]].name = "MemberExpression"
                  /\ nodes[nodes[nd.children[1]].children[1]].name # "ThisExpression"
                  /\ ~HasValue(nodes[nodes[nd.children[1]].children[1]], Str("window"))
               \/ /\ nd.name = "CallExpression"
                  /\ nodes[nd.children[1]].name = "MemberExpression"
                  /\ nodes[nodes[nd.children[1]].parent].name = "MemberExpression"
       THEN Goto(St, SetTop(stack, [callee("assignment_expr_df", f.entry)
                                       EXCEPT !.flag = TRUE]))
       ELSE IF nd.name = "UpdateExpression"
       THEN Goto(update_expr_df(St, child, f.var_loc, f.var_glob, f.entry),
                 Return(stack, f.var_loc))
       ELSE IF nd.name \in {"FunctionDeclaration", "FunctionExpression"}
       THEN \* function_scope starts: out_var_list = var_loc.copy_var_list()
            Goto(Alloc(St, copy_var_list(heap[f.var_loc])),
                 SetTop(stack, [callee("function_scope", 0) EXCEPT
                                   !.out_var_list = NewRef(St),
                                   !.flag = (nd.name = "FunctionExpression")]))
       ELSE IF is_statement(nd)
       THEN Goto(St, SetTop(stack, callee("statement_scope", f.entry)))
       ELSE IF nd.name = "ObjectExpression"
       THEN \* obj_expr_scope starts: out_var_list = var_loc.copy_var_list()
            Goto(Alloc(St, copy_var_list(heap[f.var_loc])),
                 SetTop(stack, [callee("obj_expr_scope", 0) EXCEPT
                                   !.out_var_list = NewRef(St)]))
       ELSE IF nd.name = "Identifier"
       THEN Goto(build_df_identifier(St, child, f.var_loc, f.var_glob, f.entry),
                 Return(stack, f.var_loc))
       ELSE Goto(St, SetTop(stack, callee("df_scoping", 0)))

\* build_df_variable_declaration: for child in node.children:
\*     var_loc = var_declaration_df(child, ...)
BuildDfVariableDeclaration ==
    /\ Running("build_df_variable_declaration")
    /\ LET f == Top IN
       IF f.i > Len(nodes[f.node].children)
       THEN Goto(St, Return(stack, f.var_loc))
       ELSE LET node == nodes[nodes[f.node].children[f.i]]
                next == [f EXCEPT !.i = @ + 1]
            IN  IF node.name = "VariableDeclarator"
                THEN LET r == search_identifiers(nodes, node.children[1], id_list, <<>>, TRUE)
                         st1 == decl_loop([St EXCEPT !.id_list = r.id_list], r.tab, 1,
                                          f.var_loc, f.var_glob, f.entry, FALSE)
                     IN  IF Len(node.children) > 1
                         THEN Goto(st1, Call(stack, next,
                                             Frame("build_dfg", node.children[2],
                                                   f.var_loc, f.var_glob, f.entry)))
                         ELSE Goto(st1, SetTop(stack, next))
                ELSE Goto(St, SetTop(stack, next))

\* assignment_expr_df: the assignees, then build_dfg on the other children
AssignmentExprDf ==
    /\ Running("assignment_expr_df")
    /\ LET f == Top IN
       IF f.phase = "start"
       THEN LET r == search_identifiers(nodes, nodes[f.node].children[1], id_list,
                                        <<>>, TRUE)
            IN  Goto(assignee_loop([St EXCEPT !.id_list = r.id_list], r.tab, 1,
                                   f.var_loc, f.var_glob, f.entry, f.flag),
                     SetTop(stack, [f EXCEPT !.phase = "assignt", !.i = 2]))
       ELSE IF f.i <= Len(nodes[f.node].children)
       THEN Goto(St, Call(stack, [f EXCEPT !.i = @ + 1],
                          Frame("build_dfg", nodes[f.node].children[f.i],
                                f.var_loc, f.var_glob, f.entry)))
       ELSE Goto(St, Return(stack, f.var_loc))

\* function_scope: the loop over the children, then limit_scope and return
FunctionScope ==
    /\ Running("function_scope")
    /\ LET f == Top
           next == [f EXCEPT !.i = @ + 1]
       IN
       IF f.i > Len(nodes[f.node].children)
       THEN Goto(limit_scope(St, f.var_loc), Return(stack, f.out_var_list))
       ELSE LET child == nodes[f.node].children[f.i] IN
            IF nodes[child].body \in {"id", "params"}
            THEN LET r == search_identifiers(nodes, child, id_list, <<>>, TRUE)
                     st1 == [St EXCEPT !.id_list = r.id_list]
                 IN  IF nodes[child].body = "id" /\ ~f.flag /\ r.tab # <<>>
                     THEN \* the function's name (an id is one Identifier)
                          LET param == r.tab[1]
                              st2 == var_decl_df(
                                        [st1 EXCEPT !.id_list = @ \cup {nodes[param].id}],
                                        param, f.out_var_list, f.var_glob, 0, FALSE, FALSE)
                              st3 == Alloc(st2, copy_var_list(st2.heap[f.out_var_list]))
                          IN  Goto(hoisting(st3, param),
                                   SetTop(stack, [next EXCEPT !.var_loc = NewRef(st2)]))
                     ELSE Goto(decl_loop(st1, r.tab, 1, f.var_loc, f.var_glob, 0, FALSE),
                               SetTop(stack, next))
            ELSE Goto(St, Call(stack, next,
                               Frame("build_dfg", child, f.var_loc, f.var_glob, 0)))

\* statement_scope: the statement edges, the control edges, the true
\* branches (boolean_cf_dep), the false branches (boolean_cf_dep), then the
\* merges, limit_scope and return
StatementScope ==
    /\ Running("statement_scope")
    /\ LET f == Top
           nd == nodes[f.node]
           next == [f EXCEPT !.i = @ + 1]
       IN
       IF f.phase = "start"
       THEN IF f.i <= Len(nd.statement_dep_children)
            THEN Goto(St, Call(stack, next,
                               Frame("build_dfg", nd.statement_dep_children[f.i].extremity,
                                     f.var_loc, f.var_glob, f.entry)))
            ELSE Goto(St, SetTop(stack, [f EXCEPT !.phase = "control", !.i = 1]))
       ELSE IF f.phase = "control"
       THEN IF f.i <= Len(nd.control_dep_children)
            THEN LET child_cf_dep == nd.control_dep_children[f.i] IN
                 IF child_cf_dep.label \in {"True", "False"}
                 THEN Goto(St, SetTop(stack,
                          [next EXCEPT
                              !.before_loc = heap[f.var_loc].var_list,
                              !.before_glob = heap[f.var_glob].var_list,
                              !.bound = TRUE,
                              !.todo_true = IF child_cf_dep.label = "True"
                                            THEN Append(@, child_cf_dep.extremity) ELSE @,
                              !.todo_false = IF child_cf_dep.label = "False"
                                             THEN Append(@, child_cf_dep.extremity) ELSE @]))
                 ELSE Goto(St, Call(stack, next,
                                    Frame("build_dfg", child_cf_dep.extremity,
                                          f.var_loc, f.var_glob, f.entry)))
            ELSE \* boolean_cf_dep(todo_true, ...) starts: the two copies
                 LET st1 == Alloc(St, copy_var_list(heap[f.var_loc]))
                     st2 == Alloc(st1, copy_var_list(heap[f.var_glob]))
                 IN  Goto(st2, SetTop(stack, [f EXCEPT !.phase = "true", !.i = 1,
                                                       !.temp_loc = NewRef(St),
                                                       !.temp_glob = NewRef(st1)]))
       ELSE IF f.phase = "true"
       THEN IF f.i <= Len(f.todo_true)
            THEN Goto(St, Call(stack, next,
                               Frame("build_dfg", f.todo_true[f.i],
                                     f.var_loc, f.var_glob, f.entry)))
            ELSE \* boolean_cf_dep(todo_false, var_loc=var_list_temp_loc,
                 \*                var_glob=var_list_temp_glob) starts
                 LET st1 == Alloc(St, copy_var_list(heap[f.temp_loc]))
                     st2 == Alloc(st1, copy_var_list(heap[f.temp_glob]))
                 IN  Goto(st2, SetTop(stack, [f EXCEPT !.phase = "false", !.i = 1,
                                                       !.true_loc = f.var_loc,
                                                       !.var_loc = f.temp_loc]))
       ELSE \* phase "false": var_loc is var_list_temp_loc
            IF f.i <= Len(f.todo_false)
            THEN Goto(St, Call(stack, next,
                               Frame("build_dfg", f.todo_false[f.i],
                                     f.var_loc, f.temp_glob, f.entry)))
            ELSE LET st5 == merge_or_raise(St, f.bound, f.before_loc, f.true_loc, f.var_loc)
                     st6 == merge_or_raise(st5, f.bound, f.before_glob, f.var_glob, f.temp_glob)
                 IN  Goto(limit_scope(st6, f.true_loc), Return(stack, f.true_loc))

\* obj_expr_scope: for prop in node.children: for child in prop.children
ObjExprScope ==
    /\ Running("obj_expr_scope")
    /\ LET f == Top IN
       IF f.i > Len(nodes[f.node].children)
       THEN Goto(limit_scope(St, f.var_loc), Return(stack, f.out_var_list))
       ELSE LET prop == nodes[nodes[f.node].children[f.i]] IN
            IF f.j > Len(prop.children)
            THEN Goto(St, SetTop(stack, [f EXCEPT !.i = @ + 1, !.j = 1]))
            ELSE LET child == prop.children[f.j]
                     next == [f EXCEPT !.j = @ + 1]
                 IN  IF nodes[child].body = "key"
                     THEN LET r == search_identifiers(nodes, child, id_list, <<>>, TRUE)
                          IN  Goto(decl_loop([St EXCEPT !.id_list = r.id_list], r.tab, 1,
                                             f.var_loc, f.var_glob, 0, TRUE),
                                   SetTop(stack, next))
                     ELSE Goto(St, Call(stack, next,
                                        Frame("build_dfg", child, f.var_loc, f.var_glob, 0)))

\* save_json: data = build_json(ast_nodes, dico={})
SaveJson ==
    /\ stack = <<>>
    /\ pc = "ast_nodes"
    /\ stack' = <<Frame("build_json", 1, None, None, 0)>>
    /\ UNCHANGED <<data, featVars, poolVars, restVars, prog, pc, nodes, Node_id, handed, heap,
                   var_loc, var_glob, unknown_var, id_list, raised>>

\* build_json(ast_nodes, dico), one step: the type, then one child after the
\* other, then the attributes and the return to the caller.  body_list is
\* never 'special' (nothing sets it), so a Node without children adds nothing.
BuildJson ==
    /\ Running("build_json")
    /\ LET f == Top
           node == nodes[f.node]
       IN  IF f.phase = "start"
           THEN /\ stack' = SetTop(stack, [f EXCEPT !.phase = "children",
                                              !.dico = DictSet(@, "type", Str(node.name))])
                /\ UNCHANGED <<data, pc>>
           ELSE IF f.i <= Len(node.children)
           THEN LET child == node.children[f.i]
                IN  /\ stack' = Call(stack,
                                     [f EXCEPT !.dico = build_json_before(@, nodes[child])],
                                     Frame("build_json", child, None, None, 0))
                    /\ UNCHANGED <<data, pc>>
           ELSE LET dico == set_attributes(f.dico, node.attributes, DOMAIN node.attributes)
                IN  IF Len(stack) > 1
                    THEN /\ stack' = [Pop(stack) EXCEPT ![Len(stack) - 1] =
                                         [@ EXCEPT !.dico = build_json_after(@, node, dico),
                                                   !.i = @ + 1]]
                         /\ UNCHANGED <<data, pc>>
                    ELSE /\ stack' = <<>>
                         /\ data' = dico
                         /\ pc' = "saved"
    /\ UNCHANGED <<featVars, poolVars, restVars, prog, nodes, Node_id, handed, heap, var_loc, var_glob,
                   unknown_var, id_list, raised>>

\* pickle_dump_process(dfg_nodes, store_pdg) in a process of its own: the
\* exit code of the process and what it leaves at store_pdg.  pickle.dump
\* writes the file piece by piece, so a fault (the segfault the source
\* mentions, an exception) leaves no file when open failed, an empty file,
\* or the pieces written so far.
pickle_dump_process ==
    {[exitcode |-> "0", file |-> "complete"]}
    \cup [exitcode : {"1", "-11"}, file : {"absent", "empty", "partial"}]

\* os.path.isfile(store_pdg), os.stat(store_pdg).st_size == 0
isfile(file) == file # "absent"
st_size_is_0(file) == file = "empty"

\* get_data_flow, from `if store_pdgs is not None` to `return dfg_nodes`
StorePdg ==
    /\ stack = <<>>
    /\ pc = "dfg_nodes"
    /\ \E store_pdgs \in {"None", "pdgs"} :
          IF store_pdgs # "None"
          THEN \E p \in pickle_dump_process :
                  /\ exitcode' = p.exitcode
                  /\ store_pdg' = IF /\ p.exitcode # "0"
                                     /\ isfile(p.file) /\ st_size_is_0(p.file)
                                  THEN "absent"
                                  ELSE p.file
          ELSE UNCHANGED <<store_pdg, exitcode>>
    /\ returned' = "dfg_nodes"
    /\ pc' = "returned"
    /\ UNCHANGED <<data, featVars, poolVars, selVars, extractVars, folderVars, prog, nodes, Node_id,
                   handed, heap, var_loc, var_glob, unknown_var, id_list, stack, raised>>

NextPDG ==
    \/ GetDataFlow
    \/ AstToAstNodes
    \/ BuildCfg
    \/ DfScoping
    \/ BuildDfg
    \/ BuildDfVariableDeclaration
    \/ AssignmentExprDf
    \/ FunctionScope
    \/ StatementScope
    \/ ObjExprScope
    \/ StorePdg

SpecPDG == InitPDG /\ [][NextPDG]_vars

\* the round trip of handle_json: JSON -> Node objects -> JSON
InitJson == NewRun(JsonPrograms) /\ NoJson /\ NoRest /\ NoFeatures /\ NoPool

NextJson == GetAstNodes \/ AstToAstNodes \/ SaveJson \/ BuildJson

SpecJson == InitJson /\ [][NextJson]_vars

\* several files in one process: get_data_flow is called again when the
\* graph of the file before is built.  Only ast_to_ast_nodes makes Node
\* objects, the later stages leave Node.id alone.
MaxGraphs == 2

InitIds == NewRun(JsonPrograms) /\ NoJson /\ NoRest /\ NoFeatures /\ NoPool

NextFile ==
    /\ stack = <<>>
    /\ pc = "ast_nodes"
    /\ Len(handed) - 1 < MaxGraphs
    /\ prog' \in JsonPrograms
    /\ pc' = "ast"
    /\ nodes' = <<>>
    /\ UNCHANGED <<data, featVars, poolVars, restVars, Node_id, handed, heap, var_loc,
                   var_glob, unknown_var, id_list, stack, raised>>

NextIds == GetAstNodes \/ AstToAstNodes \/ NextFile

SpecIds == InitIds /\ [][NextIds]_vars

\* build_cfg on trees of every arity
InitCfg == NewRun(CfgPrograms) /\ NoJson /\ NoRest /\ NoFeatures /\ NoPool

NextCfg == GetAstNodes \/ AstToAstNodes \/ GetCfgNodes \/ BuildCfg

SpecCfg == InitCfg /\ [][NextCfg]_vars

-----------------------------------------------------------------------------
(* Reading the graph and the program                                       *)

Done == pc = "dfg_nodes"

NodeSet == 1..Len(nodes)

\* the data edges, read from the children buckets
DataEdges ==
    {[from |-> n, to |-> nodes[n].data_dep_children[k].extremity,
      begin |-> nodes[n].data_dep_children[k].id_begin,
      end |-> nodes[n].data_dep_children[k].id_end] :
        <<n, k>> \in UNION {{<<m, l>> : l \in 1..Len(nodes[m].data_dep_children)} :
                            m \in NodeSet}}

NumDataEdges ==
    Cardinality(UNION {{<<m, l>> : l \in 1..Len(nodes[m].data_dep_children)} :
                       m \in NodeSet})

\* the entries of a statement's data_dep_parents bucket
Incoming(stmt) ==
    {[from |-> nodes[stmt].data_dep_parents[k].extremity,
      begin |-> nodes[stmt].data_dep_parents[k].id_begin,
      end |-> nodes[stmt].data_dep_parents[k].id_end] :
        k \in 1..Len(nodes[stmt].data_dep_parents)}

\* the node that holds the program's statements: Program, or the body of f
Container == IF prog.inFunction THEN nodes[2].children[2] ELSE 1

\* the node of the k-th statement of the program
Stmt(k) == nodes[Container].children[k]

Child(n, k) == nodes[n].children[k]

\* in `var x = 1;`, `let x = 0;`: the declared Identifier
Declared(stmt) == Child(Child(stmt, 1), 1)

\* in `x = ...;`: the assigned Identifier, and in `x = x + 1;` the x used
Assigned(stmt) == Child(Child(stmt, 1), 1)
UsedInAssignment(stmt) == Child(Child(Child(stmt, 1), 2), 1)

\* in `x;`: the Identifier, in `x();` the callee
Used(stmt) == Child(stmt, 1)
Callee(stmt) == Child(Child(stmt, 1), 1)

\* in `if (c) { x = 1; } else { x = 2; }`: the two assignment statements
TrueAssignment(stmt) == Child(Child(stmt, 2), 1)
FalseAssignment(stmt) == Child(Child(stmt, 3), 1)

\* in `{ let x = 1; }`: the declaration in the block
InnerDeclaration(stmt) == Child(stmt, 1)

\* in `function x() {}`: the name
FunctionName(stmt) == Child(stmt, 1)

Positions == 1..Len(prog.body)

-----------------------------------------------------------------------------
(* Claims about the data flow                                               *)

\* C1: for `var x = 1; x = x + 1;` the graph has exactly one data edge; it
\* goes from the VariableDeclaration statement to the ExpressionStatement,
\* begins at the x of the declarator and ends at the x on the right-hand
\* side.  In general, when `x = x + 1;` directly follows a declaration of x,
\* the x on its right-hand side is the end of a data edge that begins at the
\* declared x.
C1_RhsUseLinkedToReachingDefinition ==
    Done =>
        /\ prog = [inFunction |-> FALSE, body |-> <<"var x = 1;", "x = x + 1;">>]
             => /\ NumDataEdges = 1
                /\ DataEdges = {[from |-> Stmt(1), to |-> Stmt(2),
                                 begin |-> Declared(Stmt(1)),
                                 end |-> UsedInAssignment(Stmt(2))]}
        /\ \A k \in Positions \ {1} :
             /\ prog.body[k] = "x = x + 1;"
             /\ prog.body[k - 1] \in {"var x = 1;", "let x = 0;"}
             => [from |-> Stmt(k - 1), to |-> Stmt(k),
                 begin |-> Declared(Stmt(k - 1)),
                 end |-> UsedInAssignment(Stmt(k))] \in DataEdges

\* C2: after `if (c) { x = 1; } else { x = 2; }` the first later use of x has
\* exactly two incoming data edges, one from the assignment statement of each
\* branch, each beginning at the x assigned in that branch; this holds for a
\* global x and for an x local to a function.
C2_BranchMerge ==
    Done =>
        \A k \in Positions \ {1} :
            /\ prog.body[k - 1] = "if (c) { x = 1; } else { x = 2; }"
            /\ prog.body[k] = "x;"
            => Incoming(Stmt(k)) =
                 {[from |-> TrueAssignment(Stmt(k - 1)),
                   begin |-> Assigned(TrueAssignment(Stmt(k - 1))),
                   end |-> Used(Stmt(k))],
                  [from |-> FalseAssignment(Stmt(k - 1)),
                   begin |-> Assigned(FalseAssignment(Stmt(k - 1))),
                   end |-> Used(Stmt(k))]}
               /\ Len(nodes[Stmt(k)].data_dep_parents) = 2

\* C3: for `let x = 0; { let x = 1; } x;` the data edge that ends at the last
\* x starts at the statement of the outer declaration and begins at the outer
\* x; no data edge goes from the declaration in the block to that use.
C3_ShadowingRestored ==
    Done /\ prog.body = <<"let x = 0;", "{ let x = 1; }", "x;">> =>
        /\ [from |-> Stmt(1), begin |-> Declared(Stmt(1)), end |-> Used(Stmt(3))]
               \in Incoming(Stmt(3))
        /\ \A e \in Incoming(Stmt(3)) : e.from # InnerDeclaration(Stmt(2))

\* C4: when a function is called before its FunctionDeclaration, and nothing
\* but calls precedes the call, there is a data edge from the
\* FunctionDeclaration to the statement of the call, from the declared name to
\* the callee, and unknown_var holds no identifier of that name in the end.
C4_Hoisting ==
    Done =>
        \A k, m \in Positions :
            /\ k < m
            /\ \A i \in 1..k : prog.body[i] = "x();"
            /\ prog.body[m] = "function x() {}"
            /\ \A i \in (k + 1)..(m - 1) : prog.body[i] # "function x() {}"
            => /\ [from |-> Stmt(m), to |-> Stmt(k),
                   begin |-> FunctionName(Stmt(m)), end |-> Callee(Stmt(k))]
                      \in DataEdges
               /\ \A i \in 1..Len(unknown_var) : NameOf(nodes, unknown_var[i]) # "x"

\* C5: for every let declared in a block of a function body, the first block
\* or a later one, the declared identifier is not in var_loc.var_list when
\* build_dfg starts on the statement that follows the block, and no data edge
\* begins at the block's declaration and goes to that statement.
C5_LetLeavesScopeAfterBlock ==
    prog.inFunction =>
        \A k \in Positions \ {1} :
            prog.body[k - 1] = "{ let x = 1; }" =>
                /\ Running("build_dfg") /\ Top.phase = "start" /\ Top.node = Stmt(k)
                     => \A i \in 1..Len(heap[Top.var_loc].var_list) :
                          heap[Top.var_loc].var_list[i]
                             # Declared(InnerDeclaration(Stmt(k - 1)))
                /\ Done =>
                     \A e \in Incoming(Stmt(k)) :
                         e.begin # Declared(InnerDeclaration(Stmt(k - 1)))

\* the entries of a bucket that point at node other, without the extremity,
\* in the order of the bucket
RECURSIVE Towards(_, _)
Towards(bucket, other) ==
    IF bucket = <<>> THEN <<>>
    ELSE LET d == Head(bucket)
         IN  (IF d.extremity = other
              THEN <<[type |-> d.type, label |-> d.label,
                      id_begin |-> d.id_begin, id_end |-> d.id_end]>>
              ELSE <<>>) \o Towards(Tail(bucket), other)

Extremities(bucket) == {bucket[k].extremity : k \in 1..Len(bucket)}

\* a pair of buckets mirror each other
Mirrored(children, parents) ==
    /\ \A u \in NodeSet : \A v \in Extremities(children[u]) :
           Towards(children[u], v) = Towards(parents[v], u)
    /\ \A v \in NodeSet : \A u \in Extremities(parents[v]) :
           Towards(children[u], v) = Towards(parents[v], u)

-----------------------------------------------------------------------------
(* Claims about the round trip                                              *)

\* C7: for every AST document J, with scalar and null-valued keys, range
\* arrays and lists that are empty, of one or several objects, or that hold
\* null entries, build_json(ast_to_ast_nodes(J, Node('Program')), {}) equals J
\* up to the order of the keys.
C7_RoundTrip == pc = "saved" => JsonEq(data, Esprima(prog))

\* the round trip of a list without null entries gives the document back
NoHoles == \A k \in Positions : prog.body[k] \notin {"[, x];", "[,];"}

C7_RoundTripWithoutHoles == pc = "saved" /\ NoHoles => JsonEq(data, Esprima(prog))

-----------------------------------------------------------------------------
(* features_ngrams.py, features_counting.py: n-grams of a PDG              *)

\* tokens2int/parser_esprima.py and tokenizer_esprima.py as module
\* namespaces: the names they define.  AST_UNITS_DICO is given for the
\* units of the programs above.
AST_UNITS_DICO ==
    [u \in {"ArrayExpression", "AssignmentExpression", "BinaryExpression",
            "BlockStatement", "CallExpression", "ExpressionStatement",
            "FunctionDeclaration", "Identifier", "IfStatement", "Literal",
            "ObjectExpression", "Program", "Property", "VariableDeclaration",
            "VariableDeclarator"} |->
        CASE u = "ArrayExpression" -> 0
          [] u = "AssignmentExpression" -> 3
          [] u = "BinaryExpression" -> 6
          [] u = "BlockStatement" -> 7
          [] u = "CallExpression" -> 9
          [] u = "ExpressionStatement" -> 23
          [] u = "FunctionDeclaration" -> 27
          [] u = "Identifier" -> 29
          [] u = "IfStatement" -> 30
          [] u = "Literal" -> 37
          [] u = "ObjectExpression" -> 43
          [] u = "Program" -> 45
          [] u = "Property" -> 46
          [] u = "VariableDeclaration" -> 62
          [] u = "VariableDeclarator" -> 63]

parser_esprima == [AST_UNITS_DICO |-> AST_UNITS_DICO]

tokenizer_esprima == [TOKENS_DICO |-> <<>>]

\* the hash seed of the process that runs the next extraction
hashseed == hashseeds[Len(runs) + 1]

Reverse(list) == [k \in 1..Len(list) |-> list[Len(list) + 1 - k]]

\* the order in which `for x in set(<list>)` may yield the elements: it
\* depends on the hash seed of the process
iterate_as_set(list) == IF hashseed = 0 THEN list ELSE Reverse(list)

\* the order in which `for x in <list>` yields the elements of a list
iterate(list) == list

\* get_ast_features(pdg, features_list, handled_set) from child i on;
\* acc is [features_list, handled_set]
RECURSIVE get_ast_features(_, _, _, _)
get_ast_features(ns, pdg, i, acc) ==
    IF i > Len(ns[pdg].children) THEN acc
    ELSE LET child == iterate(ns[pdg].children)[i] IN
         IF ns[child].id \notin acc.handled_set
         THEN get_ast_features(ns, pdg, i + 1,
                  get_ast_features(ns, child, 1,
                      [features_list |-> Append(acc.features_list, ns[child].name),
                       handled_set |-> acc.handled_set \cup {ns[child].id}]))
         ELSE get_ast_features(ns, pdg, i + 1, acc)

\* get_ast_features(pdg, features_list, handled_features_set) within the
\* traversals of the control and data flow; acc is
\* [features_list, handled_set, handled_features_set]
ast_features_once(ns, pdg, acc) ==
    LET r == get_ast_features(ns, pdg, 1, [features_list |-> acc.features_list,
                                           handled_set |-> acc.handled_features_set])
    IN  [acc EXCEPT !.features_list = r.features_list,
                    !.handled_features_set = r.handled_set]

\* traverse_cfg (dep = "control_dep_children") and traverse_pdg
\* (dep = "data_dep_children"), and the loop over the dependencies from
\* the k-th on
RECURSIVE traverse(_, _, _, _)
RECURSIVE traverse_loop(_, _, _, _, _)
traverse(ns, pdg, acc, dep) ==
    traverse_loop(ns, pdg, 1,
        IF ns[pdg][dep] # <<>>
        THEN ast_features_once(ns, pdg,
                 [acc EXCEPT !.features_list = Append(@, ns[pdg].name),
                             !.handled_features_set = @ \cup {ns[pdg].id}])
        ELSE acc,
        dep)

traverse_loop(ns, pdg, k, acc, dep) ==
    IF k > Len(ns[pdg][dep]) THEN acc
    ELSE LET flow == iterate(ns[pdg][dep])[k].extremity
             acc1 == IF ns[flow][dep] = <<>> \/ ns[flow].id \in acc.handled_set
                     THEN [acc EXCEPT !.features_list = Append(@, ns[flow].name)]
                     ELSE acc
         IN  traverse_loop(ns, pdg, k + 1,
                 IF ns[flow].id \notin acc1.handled_set
                 THEN traverse(ns, flow,
                          ast_features_once(ns, flow,
                              [acc1 EXCEPT !.handled_set = @ \cup {ns[flow].id},
                                           !.handled_features_set = @ \cup {ns[flow].id}]),
                          dep)
                 ELSE acc1,
                 dep)

traverse_cfg(ns, pdg, acc) == traverse(ns, pdg, acc, "control_dep_children")

traverse_pdg(ns, pdg, acc) == traverse(ns, pdg, acc, "data_dep_children")

\* get_cfg_features and get_pdg_features from child i on
RECURSIVE get_flow_features(_, _, _, _, _)
get_flow_features(ns, pdg, i, acc, dep) ==
    IF i > Len(ns[pdg].children) THEN acc
    ELSE LET child == iterate(ns[pdg].children)[i]
             acc1 == IF ns[child].id \notin acc.handled_set
                     THEN traverse(ns, child, acc, dep)
                     ELSE acc
         IN  get_flow_features(ns, pdg, i + 1,
                               get_flow_features(ns, child, 1, acc1, dep), dep)

get_cfg_features(ns, pdg, features_list_) ==
    get_flow_features(ns, pdg, 1,
        [features_list |-> features_list_, handled_set |-> {}, handled_features_set |-> {}],
        "control_dep_children").features_list

get_pdg_features(ns, pdg, features_list_) ==
    get_flow_features(ns, pdg, 1,
        [features_list |-> features_list_, handled_set |-> {}, handled_features_set |-> {}],
        "data_dep_children").features_list

get_pdg_features_with_cfg(ns, pdg, features_list_) ==
    get_cfg_features(ns, pdg, get_pdg_features(ns, pdg, features_list_))

\* extract_syntactic_features(pdg_path, level): the units of the stored PDG
extract_syntactic_features(ns, lv) ==
    CASE lv = "ast" ->
            IF ns[1].children = <<>> THEN <<>>
            ELSE get_ast_features(ns, 1, 1,
                     [features_list |-> <<>>, handled_set |-> {}]).features_list
      [] lv = "cfg" -> get_cfg_features(ns, 1, <<>>)
      [] lv = "pdg-dfg" -> get_pdg_features(ns, 1, <<>>)
      [] lv = "pdg" -> get_pdg_features_with_cfg(ns, 1, <<>>)
      [] OTHER -> <<>>

\* extract_features(file_repr, level): [raised, features_list]; reading a
\* name that a module does not define raises AttributeError
extract_features(ns, lv) ==
    IF lv \in {"ast", "cfg", "pdg-dfg", "pdg"}
    THEN IF "ast_units_dico" \notin DOMAIN parser_esprima
         THEN [raised |-> "AttributeError", features_list |-> Nothing]
         ELSE LET dico_features == parser_esprima["ast_units_dico"]
                  features_list_ == extract_syntactic_features(ns, lv)
              IN  [raised |-> "None",
                   features_list |->
                       IF features_list_ # <<>>
                       THEN Some([k \in 1..Len(features_list_) |->
                                     dico_features[features_list_[k]]])
                       ELSE Nothing]
    ELSE IF lv = "tokens"
    THEN IF "tokens_dico" \notin DOMAIN tokenizer_esprima
         THEN [raised |-> "AttributeError", features_list |-> Nothing]
         ELSE [raised |-> "None", features_list |-> Nothing]
    ELSE [raised |-> "None", features_list |-> Nothing]

\* n_grams_list(numbers_list, n): the list of the n-grams, or None
n_grams_list(numbers_list, size) ==
    IF IsNone(numbers_list) THEN Nothing
    ELSE IF size < 1 THEN Nothing
    ELSE LET numbers == The(numbers_list) IN
         IF size > Len(numbers)
         THEN Some(<<[i \in 1..size |-> IF i <= Len(numbers) THEN numbers[i] ELSE None]>>)
         ELSE Some([j \in 1..(Len(numbers) - (size - 1)) |->
                       [i \in 1..size |-> numbers[j + i - 1]]])

\* the counting loop of count_ngrams and count_value: feature -> occurrences
RECURSIVE count(_, _, _)
count(features, j, dico) ==
    IF j > Len(features) THEN dico
    ELSE count(features, j + 1,
               IF features[j] \in DOMAIN dico
               THEN [dico EXCEPT ![features[j]] = @ + 1]
               ELSE [f \in DOMAIN dico \cup {features[j]} |->
                        IF f = features[j] THEN 1 ELSE dico[f]])

\* count_ngrams(file_repr, level, n): [raised, features_dict, total_features]
count_ngrams(ns, lv, size) ==
    LET ef == extract_features(ns, lv) IN
    IF ef.raised # "None"
    THEN [raised |-> ef.raised, features_dict |-> Nothing, total_features |-> Nothing]
    ELSE LET matrix_all_n_grams == n_grams_list(ef.features_list, size) IN
         IF ~IsNone(matrix_all_n_grams)
         THEN [raised |-> "None",
               features_dict |-> Some(count(The(matrix_all_n_grams), 1, <<>>)),
               total_features |-> Some(Len(The(matrix_all_n_grams)))]
         ELSE [raised |-> "None", features_dict |-> Nothing, total_features |-> Nothing]

Levels == {"ast", "tokens", "js"}

MaxN == 3

\* the n-grams of a finished PDG are counted
CountNgrams ==
    /\ stack = <<>>
    /\ pc = "dfg_nodes"
    /\ \E lv \in Levels, size \in 0..MaxN :
         LET r == count_ngrams(nodes, lv, size) IN
         /\ level' = lv
         /\ n_gram' = size
         /\ features_choice' = "ngrams"
         /\ raised' = r.raised
         /\ features_dict' = r.features_dict
         /\ total_features' = r.total_features
         /\ pc' = IF r.raised # "None" THEN "failed" ELSE "counted"
    /\ UNCHANGED <<data, poolVars, restVars, prog, nodes, Node_id, handed, heap, var_loc, var_glob,
                   unknown_var, id_list, stack, features_list, features2int_dict, csr>>

\* programs of one statement
NgramPrograms == [inFunction : BOOLEAN, body : SeqsUpTo(Statements, 1) \ {<<>>}]

InitNgram == NewRun(NgramPrograms) /\ NoJson /\ NoRest /\ NoFeatures /\ NoPool

NextNgram ==
    \/ GetDataFlow \/ AstToAstNodes \/ BuildCfg \/ DfScoping \/ BuildDfg
    \/ BuildDfVariableDeclaration \/ AssignmentExprDf \/ FunctionScope
    \/ StatementScope \/ ObjExprScope \/ CountNgrams

SpecNgram == InitNgram /\ [][NextNgram]_vars

\* C9: at level `ast`, count_ngrams with n = 2 on the PDG of `var x=1;`
\* yields exactly the pairs (VariableDeclaration, VariableDeclarator),
\* (VariableDeclarator, Identifier), (Identifier, Literal) as integers, each
\* counted once; in general the L >= n units of the non-root nodes yield
\* L-n+1 windows.
C9_AstNgrams ==
    pc \in {"counted", "failed"} /\ level = "ast" =>
        /\ pc = "counted"
        /\ n_gram >= 1 /\ Len(nodes) - 1 >= n_gram
             => total_features = Some((Len(nodes) - 1) - n_gram + 1)
        /\ prog = [inFunction |-> FALSE, body |-> <<"var x = 1;">>] /\ n_gram = 2
             => /\ ~IsNone(features_dict)
                /\ DOMAIN The(features_dict) = {<<62, 63>>, <<63, 29>>, <<29, 37>>}
                /\ \A g \in DOMAIN The(features_dict) : The(features_dict)[g] = 1
                /\ total_features = Some(3)

-----------------------------------------------------------------------------
(* features_space.py: the row of a file.  A number of the row is the exact *)
(* fraction [num, den]; floating-point rounding is not modelled.           *)

Fraction(num, den) == [num |-> num, den |-> den]

\* count_value(file_repr, level), given what features_value.extract_features
\* returns for the file: [raised, features_dict, total_features]
count_value(extracted) ==
    IF ~IsNone(extracted)
    THEN [raised |-> "None",
          features_dict |-> Some(count(The(extracted), 1, <<>>)),
          total_features |-> Some(Len(The(extracted)))]
    ELSE [raised |-> "None", features_dict |-> Nothing, total_features |-> Nothing]

\* get_features(file_repr, level, features_choice, n)
get_features(ns, extracted, lv, choice, size) ==
    IF choice = "ngrams" THEN count_ngrams(ns, lv, size)
    ELSE IF choice = "value" THEN count_value(extracted)
    ELSE [raised |-> "None", features_dict |-> Nothing, total_features |-> Nothing]

\* features2int(features2int_dict, feature): the column, or None
features2int(dict, feature) ==
    IF feature \in DOMAIN dict THEN Some(dict[feature]) ELSE Nothing

\* the loop `for feature in features_dict` of features_vector
RECURSIVE fill(_, _, _, _, _)
fill(features_vect, todo, dico, total, dict) ==
    IF todo = {} THEN features_vect
    ELSE LET feature == CHOOSE f \in todo : TRUE
             map_feature2int == features2int(dict, feature)
         IN  fill(IF ~IsNone(map_feature2int)
                  THEN [features_vect EXCEPT ![The(map_feature2int)] =
                           Fraction(dico[feature], total)]
                  ELSE features_vect,
                  todo \ {feature}, dico, total, dict)

\* csr.nnz
nnz(features_vect) == Cardinality({c \in DOMAIN features_vect : features_vect[c].num # 0})

fill_empty_row_skipped(features_vect, nb_features) == features_vect

\* `if csr.nnz == 0: features_vect[nb_features] = 1`
fill_empty_row(features_vect, nb_features) ==
    IF nnz(features_vect) = 0
    THEN [features_vect EXCEPT ![nb_features] = Fraction(1, 1)]
    ELSE features_vect

\* the body of features_vector after
\* `features_dict, total_features = get_features(...)`: [raised, got, csr];
\* the columns of the row are 0..nb_features
features_vector_of(got, dict) ==
    LET nb_features == Cardinality(DOMAIN dict)
    IN  IF got.raised # "None" THEN [raised |-> got.raised, got |-> got, csr |-> Nothing]
        ELSE IF ~IsNone(got.features_dict)
        THEN LET zeros == [c \in 0..nb_features |-> Fraction(0, 1)]
                 features_vect == fill(zeros, DOMAIN The(got.features_dict),
                                       The(got.features_dict), The(got.total_features), dict)
             IN  [raised |-> "None", got |-> got,
                  csr |-> Some(fill_empty_row(features_vect, nb_features))]
        ELSE [raised |-> "None", got |-> got, csr |-> Nothing]

\* features_vector(file_repr, level, features_choice, n, features2int_dict)
features_vector(ns, extracted, lv, choice, size, dict) ==
    features_vector_of(get_features(ns, extracted, lv, choice, size), dict)

\* the features of the files and the dictionaries: a dictionary numbers the
\* selected features 0, 1, ... (features_selection.py: `pos`)
Features == {"a", "b", "c"}

MaxFeatures == 3

Dictionaries ==
    UNION {{d \in [S -> 0..(Cardinality(S) - 1)] :
               \A f, g \in S : f # g => d[f] # d[g]} : S \in SUBSET Features}

\* no PDG is being built
NoRun ==
    /\ prog = [inFunction |-> FALSE, body |-> <<>>]
    /\ pc = "idle"
    /\ nodes = <<>>
    /\ Node_id = 1
    /\ handed = << <<0>> >>
    /\ heap = <<>>
    /\ var_loc = None
    /\ var_glob = None
    /\ unknown_var = <<>>
    /\ id_list = {}
    /\ stack = <<>>
    /\ raised = "None"

InitVect ==
    /\ NoRun /\ NoJson /\ NoRest /\ NoPool
    /\ level = "ast"
    /\ features_choice \in {"ngrams", "value", "values"}
    /\ n_gram = 2
    /\ features_list \in {Nothing} \cup {Some(l) : l \in SeqsUpTo(Features, MaxFeatures) \ {<<>>}}
    /\ features2int_dict \in Dictionaries
    /\ features_dict = Nothing
    /\ total_features = Nothing
    /\ csr = Nothing

\* a worker's call of features_vector for one file
FeaturesVector ==
    /\ pc = "idle"
    /\ \E r \in {features_vector(nodes, features_list, level, features_choice, n_gram,
                                 features2int_dict)} :
           /\ raised' = r.raised
           /\ features_dict' = r.got.features_dict
           /\ total_features' = r.got.total_features
           /\ csr' = r.csr
           /\ pc' = IF r.raised # "None" THEN "failed" ELSE "vector"
    /\ UNCHANGED <<data, poolVars, restVars, prog, nodes, Node_id, handed, heap, var_loc, var_glob,
                   unknown_var, id_list, stack, level, features_choice, n_gram,
                   features_list, features2int_dict>>

NextVect == FeaturesVector

SpecVect == InitVect /\ [][NextVect]_vars

\* the row, its sum times total_features, and the features the dictionary knows
Row == The(csr)
N == Cardinality(DOMAIN features2int_dict)
RECURSIVE SumTimes(_, _, _)
SumTimes(row, cols, total) ==
    IF cols = {} THEN 0
    ELSE LET c == CHOOSE x \in cols : TRUE
         IN  (row[c].num * total) \div row[c].den + SumTimes(row, cols \ {c}, total)
Total == The(total_features)
RowSum == SumTimes(Row, DOMAIN Row, Total)
Seen == DOMAIN The(features_dict)
Covered == Seen \cap DOMAIN features2int_dict
EntriesAreFrequencies ==
    /\ DOMAIN Row = 0..N
    /\ \A f \in Covered : Row[features2int_dict[f]] = Fraction(The(features_dict)[f], Total)
    /\ \A c \in DOMAIN Row : Row[c].num <= Row[c].den

\* C8: the row of a file has N+1 entries, the entry at a feature's column is
\* count/total, the entries sum to 1 exactly when the dictionary covers
\* every feature of the file and to less than 1 otherwise, also when it
\* covers none of them, and no entry exceeds 1.
C8_RowOfFrequencies ==
    pc = "vector" /\ ~IsNone(csr) =>
        /\ EntriesAreFrequencies
        /\ RowSum = Total <=> Seen \subseteq DOMAIN features2int_dict
        /\ ~(Seen \subseteq DOMAIN features2int_dict) => RowSum < Total

\* C8, amended: as above, but when the dictionary covers none of the file's
\* features the row is zero except for its last column, which is 1; the
\* last column is 0 in every other row.
C8_RowOfFrequenciesOrFiller ==
    pc = "vector" /\ ~IsNone(csr) =>
        /\ EntriesAreFrequencies
        /\ Seen \subseteq DOMAIN features2int_dict => RowSum = Total
        /\ Covered # {} /\ ~(Seen \subseteq DOMAIN features2int_dict) =>
               RowSum < Total /\ RowSum > 0
        /\ Covered # {} => Row[N] = Fraction(0, 1)
        /\ Covered = {} =>
               /\ Row[N] = Fraction(1, 1)
               /\ \A c \in 0..(N - 1) : Row[c] = Fraction(0, 1)

\* a row for a file none of whose features is in a dictionary of two features
C8_NoneCovered ==
    /\ pc = "vector"
    /\ ~IsNone(csr)
    /\ N = 2
    /\ Covered = {}
    /\ Row[N] = Fraction(1, 1)

-----------------------------------------------------------------------------
(* static_analysis.py: get_features and its workers.  A multiprocessing    *)
(* Queue is a buffer in the process that puts, which a feeder thread       *)
(* empties into a pipe; get and empty read the pipe, and a process exits   *)
(* only once its buffers are flushed.  my_queue is filled before a worker  *)
(* starts: its get(timeout=2) raises Empty when nothing is left.           *)

NUM_WORKERS == 2

MaxFiles == 2

Files == <<"a.js", "b.js", "c.js", "d.js">>

FilesToDo == {SubSeq(Files, 1, k) : k \in 0..MaxFiles}

InitPool ==
    /\ NoRun /\ NoJson /\ NoRest /\ NoFeatures
    /\ my_queue = <<>>
    /\ out_queue = [buffer |-> [w \in 1..NUM_WORKERS |-> <<>>], pipe |-> <<>>, put |-> <<>>]
    /\ except_queue = <<>>
    /\ workers = <<>>
    /\ main \in [pc : {"put"}, files2do : FilesToDo, i : {1}, all_exited : {FALSE}]
    /\ analyses = <<>>
    /\ dequeued = <<>>

PoolUnchanged == UNCHANGED <<pdgVars, data, featVars, restVars>>

\* for i, _ in enumerate(files2do): my_queue.put([analysis, ...])
Put ==
    /\ main.pc = "put"
    /\ IF main.i <= Len(main.files2do)
       THEN /\ my_queue' = Append(my_queue, main.files2do[main.i])
            /\ main' = [main EXCEPT !.i = @ + 1]
       ELSE /\ main' = [main EXCEPT !.pc = "start", !.i = 1]
            /\ UNCHANGED my_queue
    /\ UNCHANGED <<out_queue, except_queue, workers, analyses, dequeued>>
    /\ PoolUnchanged

\* for i in range(utility.NUM_WORKERS): p.start(); workers.append(p)
Start ==
    /\ main.pc = "start"
    /\ IF main.i <= NUM_WORKERS
       THEN /\ workers' = Append(workers, [pc |-> "get", analysis |-> "None",
                                            exitcode |-> "None"])
            /\ main' = [main EXCEPT !.i = @ + 1]
       ELSE /\ main' = [main EXCEPT !.pc = "get"]
            /\ UNCHANGED workers
    /\ UNCHANGED <<my_queue, out_queue, except_queue, analyses, dequeued>>
    /\ PoolUnchanged

\* worker: my_queue.get(timeout=2), or queue.Empty and break
WorkerGet ==
    \E w \in 1..Len(workers) :
        /\ workers[w].pc = "get"
        /\ IF my_queue # <<>>
           THEN /\ workers' = [workers EXCEPT ![w].pc = "vector", ![w].analysis = Head(my_queue)]
                /\ my_queue' = Tail(my_queue)
                /\ dequeued' = Append(dequeued, <<w, Head(my_queue)>>)
           ELSE /\ workers' = [workers EXCEPT ![w].pc = "exiting"]
                /\ UNCHANGED <<my_queue, dequeued>>
        /\ UNCHANGED <<out_queue, except_queue, main, analyses>>
        /\ PoolUnchanged

\* worker: features_vector returns and the analysis is put on out_queue, or
\* it raises and the file is put on except_queue
WorkerVector ==
    \E w \in 1..Len(workers) :
        /\ workers[w].pc = "vector"
        /\ \/ /\ out_queue' = [out_queue EXCEPT
                                  !.buffer[w] = Append(@, workers[w].analysis),
                                  !.put = Append(@, workers[w].analysis)]
              /\ UNCHANGED except_queue
           \/ /\ except_queue' = Append(except_queue, workers[w].analysis)
              /\ UNCHANGED out_queue
        /\ workers' = [workers EXCEPT ![w].pc = "get", ![w].analysis = "None"]
        /\ UNCHANGED <<my_queue, main, analyses, dequeued>>
        /\ PoolUnchanged

\* the feeder thread of a worker's out_queue
Feeder ==
    \E w \in 1..Len(workers) :
        /\ out_queue.buffer[w] # <<>>
        /\ out_queue' = [out_queue EXCEPT !.buffer[w] = Tail(@),
                                          !.pipe = Append(@, Head(out_queue.buffer[w]))]
        /\ UNCHANGED <<my_queue, except_queue, workers, main, analyses, dequeued>>
        /\ PoolUnchanged

\* the worker's process ends, its queue flushed
WorkerExit ==
    \E w \in 1..Len(workers) :
        /\ workers[w].pc = "exiting"
        /\ out_queue.buffer[w] = <<>>
        /\ workers' = [workers EXCEPT ![w].pc = "exited", ![w].exitcode = "0"]
        /\ UNCHANGED <<my_queue, out_queue, except_queue, main, analyses, dequeued>>
        /\ PoolUnchanged

\* main: analysis = out_queue.get(timeout=0.01); analyses.append(analysis),
\* or queue.Empty and pass
MainGet ==
    /\ main.pc = "get"
    /\ IF out_queue.pipe # <<>>
       THEN /\ analyses' = Append(analyses, Head(out_queue.pipe))
            /\ out_queue' = [out_queue EXCEPT !.pipe = Tail(@)]
       ELSE UNCHANGED <<analyses, out_queue>>
    /\ main' = [main EXCEPT !.pc = "exitcode", !.i = 1, !.all_exited = TRUE]
    /\ UNCHANGED <<my_queue, except_queue, workers, dequeued>>
    /\ PoolUnchanged

\* main: for w in workers: if w.exitcode is None: all_exited = False; break
MainExitcode ==
    /\ main.pc = "exitcode"
    /\ IF main.i <= Len(workers)
       THEN IF workers[main.i].exitcode = "None"
            THEN main' = [main EXCEPT !.all_exited = FALSE, !.pc = "empty"]
            ELSE main' = [main EXCEPT !.i = @ + 1]
       ELSE main' = [main EXCEPT !.pc = "empty"]
    /\ UNCHANGED <<my_queue, out_queue, except_queue, workers, analyses, dequeued>>
    /\ PoolUnchanged

LeaveLoopWhenEmpty(all_exited, empty) == empty

\* all_exited & out_queue.empty()
LeaveLoop(all_exited, empty) == all_exited /\ empty

\* main: if all_exited & out_queue.empty(): break
MainEmpty ==
    /\ main.pc = "empty"
    /\ main' = [main EXCEPT !.pc = IF LeaveLoop(main.all_exited, out_queue.pipe = <<>>)
                                   THEN "done" ELSE "get"]
    /\ UNCHANGED <<my_queue, out_queue, except_queue, workers, analyses, dequeued>>
    /\ PoolUnchanged

NextPool ==
    \/ Put \/ Start \/ MainGet \/ MainExitcode \/ MainEmpty
    \/ WorkerGet \/ WorkerVector \/ Feeder \/ WorkerExit

SpecPool == InitPool /\ [][NextPool]_vars

Occurrences(seq, x) == Cardinality({k \in 1..Len(seq) : seq[k] = x})

\* C10: when get_features leaves its loop every worker has exited and
\* out_queue is empty; every analysis put on out_queue is exactly once in
\* the list returned, and every input file was dequeued by exactly one worker.
C10_NoLostResult ==
    main.pc = "done" =>
        /\ \A w \in 1..NUM_WORKERS : workers[w].pc = "exited"
        /\ out_queue.pipe = <<>>
        /\ \A w \in 1..NUM_WORKERS : out_queue.buffer[w] = <<>>
        /\ \A k \in 1..Len(main.files2do) :
              LET file == main.files2do[k] IN
              /\ Occurrences(analyses, file) = Occurrences(out_queue.put, file)
              /\ Occurrences(analyses, file) <= 1
              /\ Cardinality({j \in 1..Len(dequeued) : dequeued[j][2] = file}) = 1
        /\ Len(analyses) = Len(out_queue.put)

\* get_features has returned two analyses that two workers made
C10_ReturnedBoth ==
    /\ main.pc = "done"
    /\ Len(analyses) = 2
    /\ dequeued[1][1] # dequeued[2][1]

\* C11: a worker whose features_vector call raises puts the file on
\* except_queue and goes on with my_queue; every entry put on except_queue
\* has been read by the main task when get_features returns.  The main task
\* has no step that reads except_queue, so an entry put is an entry unread.
C11_ErrorsAggregated ==
    /\ \A k \in 1..Len(except_queue) :
          /\ \E j \in 1..Len(dequeued) : dequeued[j][2] = except_queue[k]
          /\ Occurrences(out_queue.put, except_queue[k]) = 0
    /\ main.pc = "done" => except_queue = <<>>

\* C12: when the subprocess that pickles the PDG exits with a non-zero code,
\* get_data_flow removes whatever was written at store_pdg, of any size, and
\* returns no PDG for the file; after get_data_flow, store_pdg holds a
\* completely written PDG or does not exist.
C12_SerializationError ==
    pc = "returned" =>
        /\ store_pdg \in {"absent", "complete"}
        /\ exitcode \notin {"None", "0"} =>
              store_pdg = "absent" /\ returned = "None"

\* the rule of an ExpressionStatement, a BlockStatement or a BreakStatement
\* has linked node n to each of its children
EpsilonLinked(n) ==
    Len(nodes[n].control_dep_children) + Len(nodes[n].statement_dep_children)
        + Len(nodes[n].comment_dep_children) = Len(nodes[n].children)

\* C13: build_cfg returns for every Node tree, also when a conditional form
\* has fewer children than its rule reads or a BreakStatement occurs; the
\* malformed node is skipped and every other node has the edges of its rule.
C13_CfgNeverAborts ==
    /\ pc # "failed"
    /\ pc \in {"cfg_nodes", "failed"} =>
          \A n \in 1..Len(nodes) :
              nodes[n].name \in {"ExpressionStatement", "BlockStatement", "BreakStatement"}
                  => EpsilonLinked(n)

-----------------------------------------------------------------------------
(* features_selection.py.  A dict is the sequence of its <<key, value>>    *)
(* pairs in insertion order, which is the order Python iterates it in.     *)

DictKeys(d) == {d[k][1] : k \in 1..Len(d)}

\* for k, v in all_features_dict.items(): if v > 10: popular_features[k] = v
get_popular_features(all_features_dict) ==
    SelectSeq(all_features_dict, LAMBDA kv : kv[2] > 10)

initialize_analyzed_features_dict(all_features_dict1, all_features_dict2) ==
    LET popular_features1 == get_popular_features(all_features_dict1)
        popular_features2 == SelectSeq(get_popular_features(all_features_dict2),
                                       LAMBDA kv : kv[1] \notin DictKeys(popular_features1))
        zero(p) == [k \in 1..Len(p) |-> <<p[k][1], <<0, 0, 0, 0>>>>]
    IN  zero(popular_features1) \o zero(popular_features2)

\* position of [..][i] in a list of four, counted from 1: a negative index
\* counts from the end
PyIndex(i) == IF i < 0 THEN 4 + i + 1 ELSE i + 1

\* analyze_features without its second loop: absent features are not counted
analyze_features_present(d, features_sample, label) ==
    LET i == IF label = "benign" THEN 0
             ELSE IF label = "malicious" THEN 2
             ELSE -1
    IN  [k \in 1..Len(d) |->
            <<d[k][1],
              IF d[k][1] \in features_sample
              THEN [d[k][2] EXCEPT ![PyIndex(i)] = @ + 1]
              ELSE d[k][2]>>]

\* analyze_features(analyzed_features_dict, features_sample, label)
analyze_features(d, features_sample, label) ==
    LET i == IF label = "benign" THEN 0
             ELSE IF label = "malicious" THEN 2
             ELSE -1
    IN  [k \in 1..Len(d) |->
            <<d[k][1],
              IF d[k][1] \in features_sample
              THEN [d[k][2] EXCEPT ![PyIndex(i)] = @ + 1]
              ELSE [d[k][2] EXCEPT ![PyIndex(i + 1)] = @ + 1]>>]

\* the pickles of handle_features_all, and the features of the one sample
\* of every directory
all_features_dict == << <<"a", 11>>, <<"b", 3>>, <<"c", 12>> >>

features_of(samples_dir) == IF samples_dir = "d1" THEN {"a"} ELSE {"a", "c"}

\* the loop `for analysis in analyses` of analyze_features_all: one
\* analysis per directory, labelled labels_list[i]
RECURSIVE analyses_loop(_, _, _, _)
analyses_loop(d, samples_dir_list, labels_list, i) ==
    IF i > Len(samples_dir_list) THEN d
    ELSE analyses_loop(analyze_features(d, features_of(samples_dir_list[i]), labels_list[i]),
                       samples_dir_list, labels_list, i + 1)

\* analyze_features_all: what it returns, logs, analyses and pickles
analyze_features_all(all_features_dict1, all_features_dict2, samples_dir_list, labels_list) ==
    IF Len(samples_dir_list) # Len(labels_list)
    THEN [dict |-> Nothing, logged |-> <<"number of directories does not match">>,
          analysed |-> <<>>, pickled |-> {}]
    ELSE IF /\ \A k \in 1..Len(labels_list) : labels_list[k] # "benign"
            /\ \A k \in 1..Len(labels_list) : labels_list[k] # "malicious"
    THEN [dict |-> Nothing, logged |-> <<"expected both the labels">>,
          analysed |-> <<>>, pickled |-> {}]
    ELSE [dict |-> Some(analyses_loop(
                       initialize_analyzed_features_dict(all_features_dict1,
                                                         all_features_dict2),
                       samples_dir_list, labels_list, 1)),
          logged |-> <<>>,
          analysed |-> samples_dir_list,
          pickled |-> {"analyzed_features"}]

\* a chi-square value: not a number, infinite, or the fraction num / den
Value(num, den) == [nan |-> FALSE, inf |-> FALSE, num |-> num, den |-> den]
Infinite == [nan |-> FALSE, inf |-> TRUE, num |-> 0, den |-> 1]
NotANumber == [nan |-> TRUE, inf |-> FALSE, num |-> 0, den |-> 1]

\* round(chi2.isf(q=1-confidence/100, df=1), 2): the quantiles of the
\* chi-square distribution with one degree of freedom
get_chi(confidence) ==
    CASE confidence = 0 -> Value(0, 100)
      [] confidence = 50 -> Value(45, 100)
      [] confidence = 90 -> Value(271, 100)
      [] confidence = 95 -> Value(384, 100)
      [] confidence = 99 -> Value(663, 100)
      [] confidence = 100 -> Infinite

Abs(x) == IF x < 0 THEN -x ELSE x

\* chi2_contingency([[ben_with_f, ben_wo_f], [mal_with_f, mal_wo_f]]): the
\* statistic with the continuity correction of a table of one degree of
\* freedom, or ValueError when an expected frequency is zero
chi2_contingency(t) ==
    LET n == t[1] + t[2] + t[3] + t[4]
        r1 == t[1] + t[2]
        r2 == t[3] + t[4]
        c1 == t[1] + t[3]
        c2 == t[2] + t[4]
        diff == 2 * Abs(t[1] * t[4] - t[2] * t[3]) - n
    IN  IF n = 0 THEN [raised |-> "None", chi_square |-> NotANumber]
        ELSE IF r1 * r2 * c1 * c2 = 0
        THEN [raised |-> "ValueError", chi_square |-> NotANumber]
        ELSE [raised |-> "None",
              chi_square |-> Value(IF diff > 0 THEN diff * diff * n ELSE 0,
                                   4 * r1 * r2 * c1 * c2)]

at_most(chi_square, chi_critical) ==
    /\ ~chi_square.nan /\ ~chi_critical.nan
    /\ \/ chi_critical.inf
       \/ ~chi_square.inf /\ chi_square.num * chi_critical.den <= chi_critical.num * chi_square.den

\* chi_square >= chi_critical
at_least(chi_square, chi_critical) ==
    /\ ~chi_square.nan /\ ~chi_critical.nan
    /\ \/ chi_square.inf
       \/ ~chi_critical.inf /\ chi_square.num * chi_critical.den >= chi_critical.num * chi_square.den

\* the loop `for feature in analyzed_features_dict` of select_features
RECURSIVE select_loop(_, _, _, _, _)
select_loop(d, chi_critical, k, selected, pos) ==
    IF k > Len(d) THEN selected
    ELSE LET r == chi2_contingency(d[k][2])
             chi_square == IF r.raised = "ValueError" THEN Value(0, 1) ELSE r.chi_square
         IN  IF at_least(chi_square, chi_critical)
             THEN select_loop(d, chi_critical, k + 1, Append(selected, <<d[k][1], pos>>), pos + 1)
             ELSE select_loop(d, chi_critical, k + 1, selected, pos)

select_features(d, confidence) == select_loop(d, get_chi(confidence), 1, <<>>, 0)

\* the calls of store_features_all: the directories and labels of the
\* options --vd and --vl, with or without a pickled analyzed_features_dict
MaxDirs == 3

Dirs == <<"d1", "d2", "d3", "d4", "d5">>

Labels == {"benign", "malicious", "other"}

Tables == {<<0, 0, 0, 0>>, <<2, 1, 1, 2>>, <<3, 0, 3, 0>>, <<3, 0, 0, 3>>,
           <<4, 0, 0, 4>>, <<5, 0, 0, 5>>, <<10, 0, 0, 10>>}

\* a pickled analyzed_features_dict
pickle_load(path) ==
    IF path = "None" THEN Nothing
    ELSE Some(<< <<"a", <<10, 0, 0, 10>>>>, <<"b", <<2, 1, 1, 2>>>> >>)

InitSelect ==
    /\ NoRun /\ NoJson /\ NoFeatures /\ NoPool /\ NoStore /\ NoExtraction /\ NoFolder
    /\ call \in [js_dirs_validate : {SubSeq(Dirs, 1, k) : k \in 1..MaxDirs},
                 labels_validate : SeqsUpTo(Labels, MaxDirs) \ {<<>>},
                 analyzed_features_path : {"None", "analyzed_features"},
                 chi_confidence : {99}]
    /\ sel_pc = "store_features_all"
    /\ logged = <<>>
    /\ analysed = <<>>
    /\ analyzed_features_dict = Nothing
    /\ selected_features_dict = {}
    /\ pickled = {}

SelectUnchanged ==
    UNCHANGED <<pdgVars, data, featVars, poolVars, storeVars, extractVars, folderVars>>

\* store_features_all: the two checks, then the call of store_features
StoreFeaturesAll ==
    /\ sel_pc = "store_features_all"
    /\ logged' = IF Len(call.js_dirs_validate) # 2
                 THEN Append(logged, "indicate 2 folders")
                 ELSE IF \/ \A k \in 1..Len(call.labels_validate) :
                               call.labels_validate[k] # "benign"
                         \/ \A k \in 1..Len(call.labels_validate) :
                               call.labels_validate[k] # "malicious"
                 THEN Append(logged, "indicate the 2 labels")
                 ELSE logged
    /\ sel_pc' = "store_features"
    /\ UNCHANGED <<call, analysed, analyzed_features_dict, selected_features_dict, pickled>>
    /\ SelectUnchanged

\* store_features, up to the call of select_features
StoreFeatures ==
    /\ sel_pc = "store_features"
    /\ IF call.analyzed_features_path = "None"
       THEN LET r == analyze_features_all(all_features_dict, all_features_dict,
                                          call.js_dirs_validate, call.labels_validate)
            IN  /\ analyzed_features_dict' = r.dict
                /\ logged' = logged \o r.logged
                /\ analysed' = analysed \o r.analysed
                /\ pickled' = pickled \cup r.pickled
       ELSE /\ analyzed_features_dict' = pickle_load(call.analyzed_features_path)
            /\ UNCHANGED <<logged, analysed, pickled>>
    /\ sel_pc' = "select_features"
    /\ UNCHANGED <<call, selected_features_dict>>
    /\ SelectUnchanged

\* store_features: select_features(analyzed_features_dict, chi_confidence),
\* which raises TypeError on None, and the dump of what it returns
SelectFeatures ==
    /\ sel_pc = "select_features"
    /\ IF IsNone(analyzed_features_dict)
       THEN /\ sel_pc' = "TypeError"
            /\ UNCHANGED <<selected_features_dict, pickled>>
       ELSE /\ selected_features_dict' = selected_features_dict \cup
                   {[confidence |-> call.chi_confidence,
                     dict |-> select_features(The(analyzed_features_dict),
                                              call.chi_confidence)]}
            /\ pickled' = pickled \cup {"selected_features"}
            /\ sel_pc' = "returned"
    /\ UNCHANGED <<call, logged, analysed, analyzed_features_dict>>
    /\ SelectUnchanged

NextSelect == StoreFeaturesAll \/ StoreFeatures \/ SelectFeatures

SpecSelect == InitSelect /\ [][NextSelect]_vars

ConfigError ==
    \/ Len(call.js_dirs_validate) # 2
    \/ \A k \in 1..Len(call.labels_validate) : call.labels_validate[k] # "benign"
    \/ \A k \in 1..Len(call.labels_validate) : call.labels_validate[k] # "malicious"

\* C14: when store_features_all is called with a number of validation
\* directories other than 2, or with labels that lack 'benign' or
\* 'malicious', it reports the error, analyses no sample, selects nothing
\* and writes no selected-features dictionary.
C14_ConfigErrorNoWork ==
    ConfigError =>
        /\ sel_pc # "store_features_all" => logged # <<>>
        /\ analysed = <<>>
        /\ selected_features_dict = {}
        /\ "selected_features" \notin pickled

\* select_features on one analyzed_features_dict with several confidences
Confidences == {0, 50, 90, 95, 99, 100}

FeatureNames == <<"a", "b", "c", "d", "e">>

AnalyzedDicts ==
    {[k \in 1..Len(ts) |-> <<FeatureNames[k], ts[k]>>] : ts \in SeqsUpTo(Tables, MaxFeatures)}

InitChi ==
    /\ NoRun /\ NoJson /\ NoFeatures /\ NoPool /\ NoStore /\ NoExtraction /\ NoFolder
    /\ call = [js_dirs_validate |-> <<>>, labels_validate |-> <<>>,
               analyzed_features_path |-> "analyzed_features", chi_confidence |-> 99]
    /\ sel_pc = "select_features"
    /\ logged = <<>>
    /\ analysed = <<>>
    /\ analyzed_features_dict \in {Some(d) : d \in AnalyzedDicts}
    /\ selected_features_dict = {}
    /\ pickled = {}

\* select_features(analyzed_features_dict, confidence)
SelectFeaturesAt ==
    /\ sel_pc = "select_features"
    /\ \E confidence \in Confidences :
          /\ \A r \in selected_features_dict : r.confidence # confidence
          /\ selected_features_dict' = selected_features_dict \cup
                {[confidence |-> confidence,
                  dict |-> select_features(The(analyzed_features_dict), confidence)]}
    /\ UNCHANGED <<call, sel_pc, logged, analysed, analyzed_features_dict, pickled>>
    /\ SelectUnchanged

NextChi == SelectFeaturesAt

SpecChi == InitChi /\ [][NextChi]_vars

\* where feature is in the dict d
PositionIn(d, feature) == CHOOSE k \in 1..Len(d) : d[k][1] = feature

\* C16: for one analyzed_features_dict and confidences c1 <= c2 the keys of
\* select_features(dict, c2) are keys of select_features(dict, c1); the
\* selected features are numbered 0..k-1 without gap or repeat, in the order
\* the dictionary iterates them in.
C16_ChiMonotone ==
    /\ \A r1, r2 \in selected_features_dict :
          r1.confidence <= r2.confidence => DictKeys(r2.dict) \subseteq DictKeys(r1.dict)
    /\ \A r \in selected_features_dict :
          /\ \A k \in 1..Len(r.dict) : r.dict[k][2] = k - 1
          /\ DictKeys(r.dict) \subseteq DictKeys(The(analyzed_features_dict))
          /\ \A j, k \in 1..Len(r.dict) :
                j < k => PositionIn(The(analyzed_features_dict), r.dict[j][1])
                           < PositionIn(The(analyzed_features_dict), r.dict[k][1])

\* a higher confidence has selected fewer features, and not the first ones
C16_FewerAtHigherConfidence ==
    \E r1, r2 \in selected_features_dict :
        /\ r1.confidence < r2.confidence
        /\ Len(r1.dict) = 3 /\ Len(r2.dict) = 1
        /\ r2.dict[1][1] = "c"

-----------------------------------------------------------------------------
(* extract_syntactic_features twice on one PDG, each time in a process of  *)
(* its own                                                                 *)

MaxExtractStmts == 2

ExtractPrograms ==
    [inFunction : BOOLEAN, body : SeqsUpTo(Statements, MaxExtractStmts) \ {<<>>}]

ExtractLevels == {"ast", "cfg", "pdg-dfg", "pdg"}

MaxRuns == 2

InitExtract ==
    /\ NewRun(ExtractPrograms) /\ NoJson /\ NoFeatures /\ NoPool /\ NoStore /\ NoSelection
    /\ NoFolder
    /\ hashseeds \in [1..MaxRuns -> {0, 1}]
    /\ runs = <<>>

\* features_list, _ = extract_syntactic_features(pdg_path, level)
ExtractSyntacticFeatures ==
    /\ stack = <<>>
    /\ pc = "dfg_nodes"
    /\ Len(runs) < MaxRuns
    /\ \E lv \in ExtractLevels :
          /\ runs # <<>> => lv = runs[1].level
          /\ runs' = Append(runs, [level |-> lv,
                                   features_list |-> extract_syntactic_features(nodes, lv)])
    /\ UNCHANGED <<pdgVars, data, featVars, poolVars, storeVars, selVars, folderVars, hashseeds>>

NextExtract ==
    \/ GetDataFlow \/ AstToAstNodes \/ BuildCfg \/ DfScoping \/ BuildDfg
    \/ BuildDfVariableDeclaration \/ AssignmentExprDf \/ FunctionScope
    \/ StatementScope \/ ObjExprScope \/ ExtractSyntacticFeatures

SpecExtract == InitExtract /\ [][NextExtract]_vars

RECURSIVE Flatten(_)
Flatten(seqs) == IF seqs = <<>> THEN <<>> ELSE Head(seqs) \o Flatten(Tail(seqs))

\* C17: the nodes of a graph built by ast_to_ast_nodes have pairwise
\* distinct ids, also when several graphs are built one after the other in
\* one process: no id is handed out twice.
C17_IdsUnique ==
    /\ \A m, n \in 1..Len(nodes) : m # n => nodes[m].id # nodes[n].id
    /\ LET ids == Flatten(handed) IN
       /\ \A j, k \in 1..Len(ids) : j # k => ids[j] # ids[k]
       /\ \A n \in 1..Len(nodes) : \E k \in 1..Len(ids) : ids[k] = nodes[n].id

\* the second graph of a process is built
C17_SecondGraphBuilt ==
    /\ pc = "ast_nodes"
    /\ Len(handed) = 3
    /\ Len(nodes) >= 4

\* the depth-first pre-order walk of the tree below node n, n first
RECURSIVE PreOrder(_, _)
RECURSIVE PreOrderFrom(_, _, _)
PreOrder(ns, n) == <<n>> \o PreOrderFrom(ns, n, 1)

PreOrderFrom(ns, n, i) ==
    IF i > Len(ns[n].children) THEN <<>>
    ELSE PreOrder(ns, ns[n].children[i]) \o PreOrderFrom(ns, n, i + 1)

\* C18: in every graph get_data_flow builds, the first of a process and
\* every later one, the Program root has id 0 and the id of a node is its
\* index in the depth-first pre-order walk of the tree.
C18_IdsPreOrderFromZero ==
    pc = "ast_nodes" =>
        /\ nodes[1].name = "Program" /\ nodes[1].id = 0
        /\ LET walk == PreOrder(nodes, 1) IN
           \A k \in 1..Len(walk) : nodes[walk[k]].id = k - 1

-----------------------------------------------------------------------------
(* Claims about block scope and the VarList                                 *)

\* the statements 2..k of the program only read x
OnlyUsesUpTo(k) == \A i \in 2..k : prog.body[i] = "x;"

\* a node is an entry of a list of nodes
InList(list, n) == \E i \in 1..Len(list) : list[i] = n

\* C19: in a function body that starts with `let x = 0;`, every later
\* statement `x;` of the same block, the first, the second, the third after
\* the declaration, still finds the declared x in var_loc.var_list when
\* build_dfg starts on it, and in the finished graph its x is the end of a data
\* edge that comes from the declaration and begins at the declared x.
C19_LetVisibleUntilBlockExit ==
    prog.inFunction /\ prog.body[1] = "let x = 0;" =>
        \A k \in Positions \ {1} :
            OnlyUsesUpTo(k) =>
                /\ Running("build_dfg") /\ Top.phase = "start" /\ Top.node = Stmt(k)
                     => InList(heap[Top.var_loc].var_list, Declared(Stmt(1)))
                /\ Done =>
                     [from |-> Stmt(1), begin |-> Declared(Stmt(1)),
                      end |-> Used(Stmt(k))] \in Incoming(Stmt(k))

\* C20: in every VarList the DFG builder holds, whatever declarations,
\* re-definitions, clones, branch merges and scope exits it has performed,
\* var_list, ref_list and fun_list have the same length, and the identifiers
\* recorded in entry i of ref_list have the name of the identifier at
\* var_list[i].
C20_ParallelLists ==
    \A v \in 1..Len(heap) :
        LET V == heap[v] IN
        /\ Len(V.var_list) = Len(V.ref_list)
        /\ Len(V.var_list) = Len(V.fun_list)
        /\ \A i \in 1..Len(V.var_list) : \A j \in 1..Len(V.ref_list[i]) :
               NameOf(nodes, V.ref_list[i][j]) = NameOf(nodes, V.var_list[i])

-----------------------------------------------------------------------------
(* Claims about object literals                                             *)

ObjectLiteral == "var o = {x: 2, b: x};"

\* in `var o = {x: 2, b: x};`: the ObjectExpression, the key and the value
\* of its p-th property
ObjectOf(stmt) == Child(Child(stmt, 1), 2)
KeyOf(stmt, p) == Child(Child(ObjectOf(stmt), p), 1)
ValueOf(stmt, p) == Child(Child(ObjectOf(stmt), p), 2)

\* C21: in `var x = 1; var o = {x: 2, b: x};` the x used in the value of b is
\* the end of a data edge that comes from the statement `var x = 1` and
\* begins at the x declared there, and no data edge that ends in the literal
\* begins at a key of the literal.
C21_ValuesUnderOuterEnvironment ==
    Done =>
        \A k \in Positions \ {1} :
            prog.body[k - 1] = "var x = 1;" /\ prog.body[k] = ObjectLiteral =>
                /\ [from |-> Stmt(k - 1), begin |-> Declared(Stmt(k - 1)),
                    end |-> ValueOf(Stmt(k), 2)] \in Incoming(Stmt(k))
                /\ \A e \in Incoming(Stmt(k)) :
                       e.begin \notin {KeyOf(Stmt(k), 1), KeyOf(Stmt(k), 2)}

PropertyKeys(stmt) == {KeyOf(stmt, 1), KeyOf(stmt, 2)}

\* C22: the keys of `var o = {x: 2, b: x};` do not leak: when build_dfg
\* starts on the statement that follows the literal, neither var_loc nor
\* var_glob holds a key; in the finished graph no data edge begins at a key
\* and ends in another statement; and a use `x;` at the start of a program
\* without a FunctionDeclaration of x is still in unknown_var in the end.
C22_KeysDoNotLeak ==
    \A k \in Positions :
        prog.body[k] = ObjectLiteral =>
            /\ /\ k < Len(prog.body)
               /\ Running("build_dfg") /\ Top.phase = "start" /\ Top.node = Stmt(k + 1)
               => \A key \in PropertyKeys(Stmt(k)) :
                      /\ ~InList(heap[Top.var_loc].var_list, key)
                      /\ ~InList(heap[Top.var_glob].var_list, key)
            /\ Done =>
                 /\ \A e \in DataEdges : e.begin \in PropertyKeys(Stmt(k)) => e.to = Stmt(k)
                 /\ /\ prog.body[1] = "x;"
                    /\ \A i \in Positions : prog.body[i] # "function x() {}"
                    => InList(unknown_var, Used(Stmt(1)))

-----------------------------------------------------------------------------
(* Claims about the control flow                                            *)

CfgBuilt == pc = "cfg_nodes"

\* the control edges that leave and reach a node, as (other node, label)
ControlChildren(n) ==
    {<<nodes[n].control_dep_children[k].extremity, nodes[n].control_dep_children[k].label>> :
        k \in 1..Len(nodes[n].control_dep_children)}
ControlParents(n) ==
    {<<nodes[n].control_dep_parents[k].extremity, nodes[n].control_dep_parents[k].label>> :
        k \in 1..Len(nodes[n].control_dep_parents)}

\* in `while (c) { if (c) { break; } x; y; }`: the block of the loop, the
\* IfStatement with the break, and the statements that follow it in the block
LoopBlock(stmt) == Child(stmt, 2)
IfWithBreak(stmt) == Child(LoopBlock(stmt), 1)
AfterIf(stmt) == {Child(LoopBlock(stmt), 2), Child(LoopBlock(stmt), 3)}

\* C23: after build_cfg on `while (c) { if (c) { break; } x; y; }`, the
\* statements `x;` and `y;` that follow the IfStatement in the block are
\* control children of the IfStatement with label False, and they are no
\* control children of the block, neither in the block's control_dep_children
\* nor in their own control_dep_parents.
C23_BreakRewires ==
    CfgBuilt =>
        \A k \in Positions :
            prog.body[k] = BreakInLoop =>
                \A s \in AfterIf(Stmt(k)) :
                    /\ <<s, "False">> \in ControlChildren(IfWithBreak(Stmt(k)))
                    /\ <<IfWithBreak(Stmt(k)), "False">> \in ControlParents(s)
                    /\ \A e \in ControlChildren(LoopBlock(Stmt(k))) : e[1] # s
                    /\ \A e \in ControlParents(s) : e[1] # LoopBlock(Stmt(k))

\* C24: in a graph that build_cfg has produced, both ends of every control
\* edge are statements (is_statement): no expression node has an outgoing or
\* an incoming control edge.
C24_ControlEdgesBetweenStatements ==
    CfgBuilt =>
        \A n \in NodeSet :
            /\ ControlChildren(n) # {} => is_statement(nodes[n])
            /\ ControlParents(n) # {} => is_statement(nodes[n])

\* the children of a node that it holds under the key `body`
ChildrenAt(n, key) ==
    {nodes[n].children[i] : i \in {j \in 1..Len(nodes[n].children) :
                                      nodes[nodes[n].children[j]].body = key}}

StatementParents(n) ==
    {nodes[n].statement_dep_parents[k].extremity : k \in 1..Len(nodes[n].statement_dep_parents)}

\* C25: after build_cfg on a SwitchStatement, every consequent statement of
\* every SwitchCase, with or without a test, is the target of a control edge
\* labelled True from its SwitchCase and of no statement edge; the test of
\* every case but the last is the target of a statement edge from its case;
\* each case after the first is the False control child of the case before
\* it, and the first case is the 'e' control child of the SwitchStatement.
C25_SwitchRule ==
    CfgBuilt =>
        \A k \in Positions :
            prog.body[k] \in SwitchStatements =>
                LET cases == nodes[Stmt(k)].children IN
                /\ <<cases[2], "e">> \in ControlChildren(Stmt(k))
                /\ \A i \in 3..Len(cases) :
                       <<cases[i], "False">> \in ControlChildren(cases[i - 1])
                /\ \A i \in 2..Len(cases) :
                       /\ \A s \in ChildrenAt(cases[i], "consequent") :
                              /\ <<cases[i], "True">> \in ControlParents(s)
                              /\ StatementParents(s) = {}
                       /\ i < Len(cases) =>
                              \A e \in ChildrenAt(cases[i], "test") :
                                  cases[i] \in StatementParents(e)

-----------------------------------------------------------------------------
(* Claims about the traversals of features_ngrams.py                        *)

\* the graph with every node named by its own position, so that a traversal
\* returns the nodes that emitted a name, in the order of emission
Tagged == [n \in NodeSet |-> [nodes[n] EXCEPT !.name = n]]

EmittedCfg == get_cfg_features(Tagged, 1, <<>>)
EmittedPdg == get_pdg_features(Tagged, 1, <<>>)

\* the nodes above a node
RECURSIVE Ancestors(_)
Ancestors(n) ==
    IF n = 1 THEN {} ELSE {nodes[n].parent} \cup Ancestors(nodes[n].parent)

\* nodes that an edge of the kind reaches and that have no outgoing edge of
\* that kind, below nodes that have none either
ControlSinks ==
    {m \in NodeSet : /\ nodes[m].control_dep_parents # <<>>
                     /\ \A a \in {m} \cup Ancestors(m) : nodes[a].control_dep_children = <<>>}
DataSinks ==
    {m \in NodeSet : /\ nodes[m].data_dep_parents # <<>>
                     /\ \A a \in {m} \cup Ancestors(m) : nodes[a].data_dep_children = <<>>}

\* C26: in one pass of the cfg-level traversal, and in one pass of the
\* pdg-dfg-level traversal, over a finished PDG, no node emits its name more
\* than once; and a node that the traversal reaches over an edge and that has
\* no outgoing edge of that kind emits its own name only: its syntactic
\* children emit nothing.
C26_EmittedOnce ==
    Done =>
        /\ \A n \in NodeSet : Occurrences(EmittedCfg, n) <= 1
        /\ \A n \in NodeSet : Occurrences(EmittedPdg, n) <= 1
        /\ \A m \in ControlSinks : \A i \in 1..Len(nodes[m].children) :
               Occurrences(EmittedCfg, nodes[m].children[i]) = 0
        /\ \A m \in DataSinks : \A i \in 1..Len(nodes[m].children) :
               Occurrences(EmittedPdg, nodes[m].children[i]) = 0

\* C27: for every finished PDG, get_cfg_features emits the name of every
\* node but the root at least once, top-level statements with statement
\* edges only included, and the cfg-level feature list of a program with at
\* least one statement is not empty.
C27_CfgCoverage ==
    Done =>
        /\ \A n \in NodeSet \ {1} : Occurrences(EmittedCfg, n) >= 1
        /\ prog.body # <<>> => extract_syntactic_features(nodes, "cfg") # <<>>

-----------------------------------------------------------------------------
(* pdgs_generation.store_pdg_folder: the files of a folder are put on       *)
(* my_queue, NUM_WORKERS processes run worker(my_queue), and the main task  *)
(* joins them.  What get_data_flow does with a file is the file's outcome:  *)
(* "pdg" (it returns the PDG), "timeout" (df_scoping exceeds Timeout(60):   *)
(* get_data_flow logs and returns None) or "raise" (an exception other than *)
(* Timeout leaves get_data_flow).                                           *)

Outcomes == {"pdg", "timeout", "raise"}

MaxJs == 3

\* the folders: up to MaxJs files, each with its outcome
Folders ==
    UNION {[1..k -> Outcomes] : k \in 0..MaxJs}

InitFolder ==
    /\ NoRun /\ NoJson /\ NoFeatures /\ NoPool /\ NoStore /\ NoSelection /\ NoExtraction
    /\ \E outcomes \in Folders :
          folder = [pc |-> "put", i |-> 1,
                    files |-> [k \in 1..Len(outcomes) |->
                                  [js |-> Files[k], outcome |-> outcomes[k]]]]
    /\ js_queue = <<>>
    /\ pdg_workers = <<>>
    /\ taken = <<>>

FolderUnchanged == UNCHANGED <<pdgVars, data, featVars, poolVars, storeVars, selVars, extractVars>>

\* for root, _, files in os.walk(folder_js): for js in files: my_queue.put(...)
FolderPut ==
    /\ folder.pc = "put"
    /\ IF folder.i <= Len(folder.files)
       THEN /\ js_queue' = Append(js_queue, folder.files[folder.i])
            /\ folder' = [folder EXCEPT !.i = @ + 1]
       ELSE /\ folder' = [folder EXCEPT !.pc = "start", !.i = 1]
            /\ UNCHANGED js_queue
    /\ UNCHANGED <<pdg_workers, taken>>
    /\ FolderUnchanged

\* for i in range(NUM_WORKERS): p = Process(target=worker, ...); p.start()
FolderStart ==
    /\ folder.pc = "start"
    /\ IF folder.i <= NUM_WORKERS
       THEN /\ pdg_workers' = Append(pdg_workers, [pc |-> "get", item |-> None])
            /\ folder' = [folder EXCEPT !.i = @ + 1]
       ELSE /\ folder' = [folder EXCEPT !.pc = "join"]
            /\ UNCHANGED pdg_workers
    /\ UNCHANGED <<js_queue, taken>>
    /\ FolderUnchanged

\* worker: item = my_queue.get(timeout=2); on an empty queue get raises
\* Empty, and `except Exception: break` ends the worker
WorkerTake ==
    \E w \in 1..Len(pdg_workers) :
        /\ pdg_workers[w].pc = "get"
        /\ IF js_queue # <<>>
           THEN /\ pdg_workers' = [pdg_workers EXCEPT ![w] =
                                      [pc |-> "handle", item |-> Head(js_queue)]]
                /\ js_queue' = Tail(js_queue)
                /\ taken' = Append(taken, <<w, Head(js_queue).js>>)
           ELSE /\ pdg_workers' = [pdg_workers EXCEPT ![w].pc = "exited"]
                /\ UNCHANGED <<js_queue, taken>>
        /\ UNCHANGED folder
        /\ FolderUnchanged

\* worker: handle_one_pdg(item[0], item[1], item[2]); an exception that
\* leaves it is caught by `except Exception: break`
WorkerHandle ==
    \E w \in 1..Len(pdg_workers) :
        /\ pdg_workers[w].pc = "handle"
        /\ pdg_workers' = [pdg_workers EXCEPT ![w] =
                              [pc |-> IF pdg_workers[w].item.outcome = "raise"
                                      THEN "exited" ELSE "get",
                               item |-> None]]
        /\ UNCHANGED <<folder, js_queue, taken>>
        /\ FolderUnchanged

\* for w in workers: w.join()
FolderJoin ==
    /\ folder.pc = "join"
    /\ \A w \in 1..Len(pdg_workers) : pdg_workers[w].pc = "exited"
    /\ folder' = [folder EXCEPT !.pc = "done"]
    /\ UNCHANGED <<js_queue, pdg_workers, taken>>
    /\ FolderUnchanged

NextFolder == FolderPut \/ FolderStart \/ WorkerTake \/ WorkerHandle \/ FolderJoin

SpecFolder == InitFolder /\ [][NextFolder]_vars

\* C28: when store_pdg_folder has joined its workers, every file it put on
\* the queue was taken by a worker, whatever the number of files whose PDG
\* generation raises or times out and whatever their position.
C28_EveryFileTaken ==
    folder.pc = "done" =>
        /\ js_queue = <<>>
        /\ \A k \in 1..Len(folder.files) :
               \E j \in 1..Len(taken) : taken[j][2] = folder.files[k].js

-----------------------------------------------------------------------------
(* features_selection.analyze_features applied to a sequence of samples,   *)
(* each labelled 'benign' or 'malicious'.  `analysed` records the samples  *)
(* as [label, features_sample].                                            *)

MaxSamples == 3

\* the features a sample may have; "b" is not popular, "z" is in no pickle
SampleFeatures == {"a", "b", "c", "z"}

InitAnalyze ==
    /\ NoRun /\ NoJson /\ NoFeatures /\ NoPool /\ NoStore /\ NoExtraction /\ NoFolder
    /\ call = [js_dirs_validate |-> <<>>, labels_validate |-> <<>>,
               analyzed_features_path |-> "None", chi_confidence |-> 99]
    /\ sel_pc = "analyze_features"
    /\ logged = <<>>
    /\ analysed = <<>>
    /\ analyzed_features_dict =
           Some(initialize_analyzed_features_dict(all_features_dict, all_features_dict))
    /\ selected_features_dict = {}
    /\ pickled = {}

\* analyze_features(analyzed_features_dict, features_sample, label)
AnalyzeFeatures ==
    /\ sel_pc = "analyze_features"
    /\ Len(analysed) < MaxSamples
    /\ \E features_sample \in SUBSET SampleFeatures, label \in {"benign", "malicious"} :
          /\ analyzed_features_dict' =
                 Some(analyze_features(The(analyzed_features_dict), features_sample, label))
          /\ analysed' = Append(analysed, [label |-> label, features_sample |-> features_sample])
    /\ UNCHANGED <<call, sel_pc, logged, selected_features_dict, pickled>>
    /\ SelectUnchanged

NextAnalyze == AnalyzeFeatures

SpecAnalyze == InitAnalyze /\ [][NextAnalyze]_vars

\* the number of samples processed so far with a label, and those of them
\* that have a feature
Processed(label) == Cardinality({k \in 1..Len(analysed) : analysed[k].label = label})
ProcessedWith(label, f) ==
    Cardinality({k \in 1..Len(analysed) :
                    analysed[k].label = label /\ f \in analysed[k].features_sample})

\* C29: after analyze_features was applied to any sequence of samples
\* labelled benign or malicious, every feature f of analyzed_features_dict
\* has ben_with_f + ben_wo_f = the number of benign samples processed and
\* mal_with_f + mal_wo_f = the number of malicious samples processed, with
\* ben_with_f and mal_with_f the numbers of those samples that have f; the
\* features of the dictionary are those it was initialized with.
C29_ContingencyTable ==
    LET d == The(analyzed_features_dict) IN
    /\ DictKeys(d) =
           DictKeys(initialize_analyzed_features_dict(all_features_dict, all_features_dict))
    /\ \A k \in 1..Len(d) :
           LET f == d[k][1]
               table == d[k][2]
           IN  /\ table[1] + table[2] = Processed("benign")
               /\ table[3] + table[4] = Processed("malicious")
               /\ table[1] = ProcessedWith("benign", f)
               /\ table[3] = ProcessedWith("malicious", f)

\* three samples of both labels were analysed, one of them with a feature
\* that is not in the dictionary, and a feature of the dictionary was present
\* in one sample and absent from another
C29_MixedSamples ==
    /\ Len(analysed) = MaxSamples
    /\ Processed("benign") >= 1 /\ Processed("malicious") >= 1
    /\ \E k \in 1..Len(analysed) : "z" \in analysed[k].features_sample
    /\ \E k \in 1..Len(The(analyzed_features_dict)) :
           LET table == The(analyzed_features_dict)[k][2]
           IN  table[1] + table[3] >= 1 /\ table[2] + table[4] >= 1

-----------------------------------------------------------------------------
(* The value level of features_value.py: the units with their values       *)

\* the numbers that json.load reads as a float: those written with a
\* fraction or an exponent
FloatTexts == {"1.5"}

\* isinstance(literal, cls) for a value read by json.load; bool is a
\* subclass of int
isinstance(literal, cls) ==
    CASE cls = "str" -> literal.t = "str"
      [] cls = "int" -> literal.t = "bool" \/ (literal.t = "num" /\ literal.v \notin FloatTexts)
      [] cls = "float" -> literal.t = "num" /\ literal.v \in FloatTexts
      [] cls = "bool" -> literal.t = "bool"
      [] OTHER -> FALSE

\* Node.literal_type: the first branch that matches returns; "None" is the
\* warning and the None at the end
literal_type(node) ==
    LET literal == node.attributes["value"]
        typed == IF ~ HasAttr(node, "value") THEN "None"
                 ELSE IF isinstance(literal, "str") THEN "String"
                 ELSE IF isinstance(literal, "int") THEN "Int"
                 ELSE IF isinstance(literal, "float") THEN "Numeric"
                 ELSE IF isinstance(literal, "bool") THEN "Bool"
                 ELSE IF literal = Str("null") \/ literal.t = "null" THEN "Null"
                 ELSE "None"
    IN  IF typed # "None" THEN typed
        ELSE IF HasAttr(node, "regex") THEN "RegExp"
        ELSE "None"

\* search_identifier(node, tab_id) from child i on: the Identifier nodes of
\* the subtree, a child that is an Identifier is not searched further
RECURSIVE search_children(_, _, _, _)
search_children(ns, node, i, tab_id) ==
    IF i > Len(ns[node].children) THEN tab_id
    ELSE LET child == iterate(ns[node].children)[i] IN
         IF ns[child].name = "Identifier"
         THEN search_children(ns, node, i + 1, Append(tab_id, child))
         ELSE search_children(ns, node, i + 1,
                  search_children(ns, child, 1, tab_id))

search_identifier(ns, node, tab_id) ==
    search_children(ns, node, 1,
        IF ns[node].name = "Identifier" THEN Append(tab_id, node) ELSE tab_id)

\* get_context_value(node): <<>> is None
get_context_value(ns, node) ==
    LET identifier_nodes == search_identifier(ns, node, <<>>)
    IN  IF identifier_nodes # <<>>
        THEN Some(<<ns[node].name, ns[identifier_nodes[1]].attributes["name"]>>)
        ELSE Nothing

\* get_ast_features(pdg, features_list, handled_set) of features_value.py
\* from child i on; acc is [features_list, handled_set]
RECURSIVE value_ast_features(_, _, _, _)
value_ast_features(ns, pdg, i, acc) ==
    IF i > Len(ns[pdg].children) THEN acc
    ELSE LET child == iterate(ns[pdg].children)[i]
             unit == IF ns[child].name = "Literal"
                     THEN IF HasAttr(ns[child], "value")
                          THEN <<<<literal_type(ns[child]), ns[child].attributes["value"]>>>>
                          ELSE <<>>
                     ELSE IF ~ IsNone(get_context_value(ns, child))
                     THEN <<The(get_context_value(ns, child))>>
                     ELSE <<>>
         IN  IF ns[child].id \notin acc.handled_set
             THEN value_ast_features(ns, pdg, i + 1,
                      value_ast_features(ns, child, 1,
                          [features_list |-> acc.features_list \o unit,
                           handled_set |-> acc.handled_set \cup {ns[child].id}]))
             ELSE value_ast_features(ns, pdg, i + 1, acc)

\* extract_syntactic_features(pdg_path, 'ast') of features_value.py
value_syntactic_features(ns) ==
    IF ns[1].children = <<>> THEN <<>>
    ELSE value_ast_features(ns, 1, 1,
             [features_list |-> <<>>, handled_set |-> {}]).features_list

LiteralStatements ==
    {"true;", "false;", "1;", "1.5;", "'s';", "null;", "/a/;",
     "var x = 1;", "function x() {}", "var o = {x: 2, b: x};", "x = x + 1;"}

MaxLiteralStmts == 2

LiteralPrograms ==
    [inFunction : BOOLEAN, body : SeqsUpTo(LiteralStatements, MaxLiteralStmts) \ {<<>>}]

InitValue ==
    /\ NewRun(LiteralPrograms) /\ NoJson /\ NoFeatures /\ NoPool /\ NoStore /\ NoSelection
    /\ NoFolder
    /\ hashseeds = [k \in 1..MaxRuns |-> 0]
    /\ runs = <<>>

\* features_list, _ = extract_syntactic_features(pdg_path, 'ast') on the
\* PDG that get_data_flow has stored
ValueSyntacticFeatures ==
    /\ stack = <<>>
    /\ pc = "dfg_nodes"
    /\ runs = <<>>
    /\ runs' = <<[level |-> "ast", features_list |-> value_syntactic_features(nodes)]>>
    /\ UNCHANGED <<pdgVars, data, featVars, poolVars, storeVars, selVars, folderVars, hashseeds>>

NextValue ==
    \/ GetDataFlow \/ AstToAstNodes \/ BuildCfg \/ DfScoping \/ BuildDfg
    \/ BuildDfVariableDeclaration \/ AssignmentExprDf \/ FunctionScope
    \/ StatementScope \/ ObjExprScope \/ ValueSyntacticFeatures

SpecValue == InitValue /\ [][NextValue]_vars

\* the sub-type that the value of a Literal calls for
SubType(node) ==
    IF HasAttr(node, "value")
    THEN CASE node.attributes["value"].t = "bool" -> "Bool"
           [] node.attributes["value"].t = "num" ->
                 IF node.attributes["value"].v \in FloatTexts THEN "Numeric" ELSE "Int"
           [] node.attributes["value"].t = "str" -> "String"
           [] node.attributes["value"].t = "null" -> "Null"
           [] OTHER -> "None"
    ELSE IF HasAttr(node, "regex") THEN "RegExp" ELSE "None"

Literals == {n \in NodeSet : nodes[n].name = "Literal"}

\* the units that the value level has emitted for the Literal nodes
LiteralUnits ==
    {u \in {runs[1].features_list[k] : k \in 1..Len(runs[1].features_list)} :
        \E n \in Literals : HasAttr(nodes[n], "value") /\ u[2] = nodes[n].attributes["value"]}

\* C30: once the value level has been extracted, literal_type has given
\* every Literal node the sub-type of its value: Bool for true and false,
\* Int for an integer, Numeric for a non-integer number, String for a
\* string, Null for null, RegExp for a literal with a `regex` attribute and
\* no value; and every unit emitted for a Literal carries that sub-type.
C30_LiteralSubType ==
    runs # <<>> =>
        /\ \A n \in Literals : literal_type(nodes[n]) = SubType(nodes[n])
        /\ \A n \in Literals :
              HasAttr(nodes[n], "value") =>
                 <<SubType(nodes[n]), nodes[n].attributes["value"]>> \in LiteralUnits

====
